---- MODULE Spec2Model ----
(***************************************************************************)
(* A model of OrmKit's migration runner (migrations/runner.py) and of its  *)
(* Unit-of-Work session (session.py).                                      *)
(*                                                                         *)
(* SpecMigration drives the MigrationRunner over a directory of scripts.   *)
(* Four machines drive one AsyncSession over two tables: SpecSession the   *)
(* pending queues, the flush and the begin() scope; SpecIdentity the calls *)
(* that return instances; SpecQuery the query's terminal operations on a   *)
(* soft delete class; SpecGet get() over tables that already hold rows.    *)
(* Each machine leaves the other variables alone.                          *)
(***************************************************************************)
EXTENDS Integers, Sequences, FiniteSets, TLC

VARIABLES
    scripts,        \* the versions directory: scripts in glob order
    version_table,  \* rows of the version table, in storage (rowid) order
    schema,         \* revision -> number of its upgrade statements in effect
    lastCall,       \* what the last runner call did
    hadError,       \* some runner call so far has raised
    db,             \* class -> primary key -> "absent" | "live" | "deleted"
    nextPk,         \* class -> the next autoincrement primary key
    objs,           \* the model instances created so far: [cls, pk, del]
    identity_map,   \* class -> primary key -> instance (0: no entry)
    pending_new,    \* AsyncSession._pending_new
    pending_dirty,  \* AsyncSession._pending_dirty
    pending_delete, \* AsyncSession._pending_delete
    autoflush,      \* AsyncSession._autoflush
    dialect,        \* AsyncSession._dialect
    scope,          \* inside a begin() scope: the instances added in it
    lastOp,         \* what the last session call did
    batching,       \* one _batch_insert call: its inputs and its batches
    store,          \* the rows of Post and of the tables it is related to
    loaded,         \* what the last query with a load plan returned
    m2m,            \* a junction table and one ManyToManyCollection on it
    ups,            \* the table upsert() writes to and its last call
    fnCall          \* a call of a function of the library: inputs and result

migVars == <<scripts, version_table, schema, lastCall, hadError>>

sessVars == <<db, nextPk, objs, identity_map, pending_new, pending_dirty,
              pending_delete, autoflush, dialect, scope, lastOp>>

auxVars == <<batching, store, loaded, m2m, ups, fnCall>>

vars == <<migVars, sessVars, auxVars>>

-----------------------------------------------------------------------------
(* Bounds *)

\* statements per migration function
NStmts == 1
\* largest N of downgrade("-N")
MaxDown == 2
\* primary keys per table
MaxPk == 2
\* model instances alive in one run
MaxObjs == 3
\* entries per pending queue
MaxQueue == 2
\* largest batch_size of stream()
MaxBatch == 2
\* how far the column and instance counts of a flush range around the
\* values where the batch size changes
Spread == 2
\* rows of the parent table of a load
MaxParents == 2
\* entries of a load plan
MaxPlan == 2
\* operations of one migration function
MaxOps == 3
\* rows of the table upsert() writes to
MaxUsers == 3
\* values of a column of that table
MaxVal == 2
\* junction rows per pair when the junction table has no key
MaxRows == 2
\* target instances handed to a many-to-many collection
MaxItems == 3
\* foreign key columns of one table that reference the same other table
MaxFk == 2
\* nesting depth of the Q expressions
MaxDepth == 2

-----------------------------------------------------------------------------
(* Revisions.  A revision id is a string; it is modelled as a tuple of      *)
(* characters so that str.startswith keeps its meaning: "1" is a prefix of  *)
(* "12".                                                                   *)

NoRev == <<>>
RevA == <<1>>
RevAB == <<1, 2>>
RevB == <<2>>
AllRevs == {RevA, RevAB, RevB}
\* a down_revision that names no script of the directory
MissingRev == <<3>>
\* the target "head"
HEAD == <<0>>

StartsWith(s, prefix) ==
    /\ Len(prefix) <= Len(s)
    /\ \A i \in 1..Len(prefix) : s[i] = prefix[i]

Range(s) == {s[i] : i \in 1..Len(s)}

RECURSIVE Reverse(_)
Reverse(s) == IF s = <<>> THEN <<>> ELSE Append(Reverse(Tail(s)), Head(s))

RECURSIVE SelectSeq2(_, _)
\* [x for x in s if x in keep]
SelectSeq2(s, keep) ==
    IF s = <<>> THEN <<>>
    ELSE IF Head(s) \in keep THEN <<Head(s)>> \o SelectSeq2(Tail(s), keep)
         ELSE SelectSeq2(Tail(s), keep)

Take(s, n) == SubSeq(s, 1, IF n < Len(s) THEN n ELSE Len(s))

Abs(n) == IF n < 0 THEN -n ELSE n

-----------------------------------------------------------------------------
(* Script directories: linear chains of one, two and three revisions whose  *)
(* base names either no parent or a parent that has no script, the files   *)
(* listed parents first or children first.                                 *)

Chains == {<<RevA>>, <<RevA, RevAB>>, <<RevAB, RevA>>, <<RevB, RevA, RevAB>>}

ScriptDir(chain, base, childrenFirst) ==
    [i \in 1..Len(chain) |->
        LET k == IF childrenFirst THEN Len(chain) + 1 - i ELSE i
        IN [revision |-> chain[k],
            down_revision |-> IF k = 1 THEN base ELSE chain[k - 1]]]

ScriptDirs ==
    {ScriptDir(chain, base, cf) : chain \in Chains, base \in {NoRev, MissingRev}, cf \in BOOLEAN}

Revisions(ss) == {ss[i].revision : i \in 1..Len(ss)}

\* by_revision = {s.revision: s for s in scripts}
ByRevision(ss, rev) == ss[CHOOSE i \in 1..Len(ss) : ss[i].revision = rev]

RECURSIVE Visit(_, _, _)
\* visit(script) of _sort_migrations; st = [sorted, visited]
Visit(ss, s, st) ==
    IF s.revision \in st.visited THEN st
    ELSE LET st1 == [st EXCEPT !.visited = @ \cup {s.revision}]
             st2 == IF s.down_revision # NoRev /\ s.down_revision \in Revisions(ss)
                    THEN Visit(ss, ByRevision(ss, s.down_revision), st1)
                    ELSE st1
         IN [st2 EXCEPT !.sorted = Append(@, s)]

RECURSIVE SortFrom(_, _, _)
SortFrom(ss, i, st) ==
    IF i > Len(ss) THEN st.sorted ELSE SortFrom(ss, i + 1, Visit(ss, ss[i], st))

\* MigrationRunner._sort_migrations
SortMigrations(ss) == SortFrom(ss, 1, [sorted |-> <<>>, visited |-> {}])

\* MigrationRunner.load_migrations: the sorted scripts' revisions
LoadMigrations ==
    LET sorted == SortMigrations(scripts)
    IN [i \in 1..Len(sorted) |-> sorted[i].revision]

\* MigrationRunner.get_applied_revisions: SELECT version_num, rows in storage order
GetAppliedRevisions(table) == table

\* MigrationRunner.get_current_revision: SELECT version_num ... LIMIT 1
GetCurrentRevision(table) ==
    IF GetAppliedRevisions(table) = <<>> THEN NoRev ELSE table[1]

\* MigrationRunner.get_pending_migrations
GetPendingMigrations(table) ==
    SelectSeq2(LoadMigrations, Revisions(scripts) \ Range(GetAppliedRevisions(table)))

-----------------------------------------------------------------------------
(* _apply_migration.  An outcome says where the call raises: nowhere, in   *)
(* the script's function, at its k-th statement, or at the statement that  *)
(* updates the version table.  Statements run one by one on the pool, with *)
(* no enclosing transaction, so those before the failure stay in effect.   *)

Ok == 0
FailFn == -1
FailVersion == NStmts + 1
Outcomes == FailFn..FailVersion
Failures == Outcomes \ {Ok}

Max(a, b) == IF a > b THEN a ELSE b
Min(a, b) == IF a < b THEN a ELSE b

\* the script's statements of _apply_migration: how many of the revision's
\* upgrade statements are in effect afterwards
ApplyStatements(cur, direction, o) ==
    IF o = FailFn THEN cur
    ELSE IF o \in 1..NStmts
         THEN IF direction = "upgrade" THEN Max(cur, o - 1) ELSE Min(cur, NStmts - (o - 1))
         ELSE IF direction = "upgrade" THEN NStmts ELSE 0

\* ApplyVersion with the version row written before the script runs, so that
\* a failing script leaves its revision recorded
ApplyVersionFirst(table, rev, direction, o) ==
    IF direction = "upgrade"
    THEN IF o = FailVersion THEN table ELSE Append(table, rev)
    ELSE IF o # Ok THEN table ELSE SelectSeq2(table, Range(table) \ {rev})

\* the version-table statement of _apply_migration
ApplyVersion(table, rev, direction, o) ==
    IF o # Ok THEN table
    ELSE IF direction = "upgrade" THEN Append(table, rev)
         ELSE SelectSeq2(table, Range(table) \ {rev})

\* the migrations upgrade(target) applies when nothing raises
UpgradePlan(pending, target) ==
    IF target = HEAD \/ ~\E i \in 1..Len(pending) : StartsWith(pending[i], target)
    THEN pending
    ELSE SubSeq(pending, 1, CHOOSE i \in 1..Len(pending) :
                    /\ StartsWith(pending[i], target)
                    /\ \A j \in 1..(i - 1) : ~StartsWith(pending[j], target))

\* downgrade's count for a revision target
CountForRevision(applied, target) ==
    LET rev == Reverse(applied)
    IN IF \E i \in 1..Len(rev) : StartsWith(rev[i], target)
       THEN (CHOOSE i \in 1..Len(rev) :
                /\ StartsWith(rev[i], target)
                /\ \A j \in 1..(i - 1) : ~StartsWith(rev[j], target)) - 1
       ELSE Len(applied)

\* the migrations downgrade rolls back when nothing raises
DowngradePlan(applied, count) ==
    Take(Reverse(SelectSeq2(applied, Revisions(scripts))), count)

\* run plan[1..] in order; f is the position of the migration that raises
\* (0: none) and o how it raises
RunPlan(plan, direction, f, o) ==
    LET done == IF f = 0 THEN plan ELSE SubSeq(plan, 1, f - 1)
        RECURSIVE Fold(_, _)
        Fold(i, table) ==
            IF i > Len(done) THEN table
            ELSE Fold(i + 1, ApplyVersion(table, done[i], direction, Ok))
    IN [ran |-> done,
        table |-> IF f = 0 THEN Fold(1, version_table)
                  ELSE ApplyVersion(Fold(1, version_table), plan[f], direction, o),
        schema |-> [r \in AllRevs |->
                      IF r \in Range(done) THEN ApplyStatements(schema[r], direction, Ok)
                      ELSE IF f # 0 /\ r = plan[f] THEN ApplyStatements(schema[r], direction, o)
                      ELSE schema[r]],
        failed |-> IF f = 0 THEN NoRev ELSE plan[f]]

Call(op, target, n, ran, failed, raised, result) ==
    [op |-> op, target |-> target, n |-> n, ran |-> ran, failed |-> failed,
     raised |-> raised, result |-> result]

\* a runner over the directory ss, before any call
MigStart(ss) ==
    /\ scripts = ss
    /\ version_table = <<>>
    /\ schema = [r \in AllRevs |-> 0]
    /\ lastCall = Call("none", NoRev, 0, <<>>, NoRev, FALSE, NoRev)
    /\ hadError = FALSE

\* a call whose first round trip raises: nothing has run yet
Raise(op, target, n) ==
    /\ lastCall' = Call(op, target, n, <<>>, NoRev, TRUE, NoRev)
    /\ hadError' = TRUE
    /\ UNCHANGED <<scripts, version_table, schema, sessVars, auxVars>>

\* MigrationRunner.upgrade(target)
Upgrade(target) ==
    LET plan == UpgradePlan(GetPendingMigrations(version_table), target)
    IN \/ Raise("upgrade", target, 0)
       \/ \E f \in 0..Len(plan), o \in Outcomes :
            /\ (f = 0) = (o = Ok)
            /\ LET r == RunPlan(plan, "upgrade", f, o)
               IN /\ version_table' = r.table
                  /\ schema' = r.schema
                  /\ lastCall' = Call("upgrade", target, 0, r.ran, r.failed, f # 0, NoRev)
                  /\ hadError' = (hadError \/ f # 0)
            /\ UNCHANGED <<scripts, sessVars, auxVars>>

\* MigrationRunner.downgrade("-N"); t is the integer the string denotes
DowngradeN(t) ==
    LET applied == GetAppliedRevisions(version_table)
        plan == IF applied = <<>> THEN <<>> ELSE DowngradePlan(applied, Abs(t))
    IN \/ Raise("downgrade_n", NoRev, Abs(t))
       \/ \E f \in 0..Len(plan), o \in Outcomes :
            /\ (f = 0) = (o = Ok)
            /\ LET r == RunPlan(plan, "downgrade", f, o)
               IN /\ version_table' = r.table
                  /\ schema' = r.schema
                  /\ lastCall' = Call("downgrade_n", NoRev, Abs(t), r.ran, r.failed, f # 0, NoRev)
                  /\ hadError' = (hadError \/ f # 0)
            /\ UNCHANGED <<scripts, sessVars, auxVars>>

\* MigrationRunner.downgrade(revision)
DowngradeRev(target) ==
    LET applied == GetAppliedRevisions(version_table)
        plan == IF applied = <<>> THEN <<>>
                ELSE DowngradePlan(applied, CountForRevision(applied, target))
    IN \/ Raise("downgrade_rev", target, 0)
       \/ \E f \in 0..Len(plan), o \in Outcomes :
            /\ (f = 0) = (o = Ok)
            /\ LET r == RunPlan(plan, "downgrade", f, o)
               IN /\ version_table' = r.table
                  /\ schema' = r.schema
                  /\ lastCall' = Call("downgrade_rev", target, 0, r.ran, r.failed, f # 0, NoRev)
                  /\ hadError' = (hadError \/ f # 0)
            /\ UNCHANGED <<scripts, sessVars, auxVars>>

\* the table after stamp's DELETE and INSERT; o = FailVersion: the INSERT raises
StampTable(table, rev, o) == IF o = Ok THEN <<rev>> ELSE <<>>

\* MigrationRunner.stamp(revision)
Stamp(rev) ==
    \/ Raise("stamp", rev, 0)
    \/ \E o \in {Ok, FailVersion} :
         /\ version_table' = StampTable(version_table, rev, o)
         /\ lastCall' = Call("stamp", rev, 0, <<>>, NoRev, o # Ok, NoRev)
         /\ hadError' = (hadError \/ o # Ok)
         /\ UNCHANGED <<scripts, schema, sessVars, auxVars>>

\* MigrationRunner.get_current_revision()
CurrentRevision ==
    \/ Raise("current", NoRev, 0)
    \/ /\ lastCall' = Call("current", NoRev, 0, <<>>, NoRev, FALSE, GetCurrentRevision(version_table))
       /\ UNCHANGED <<scripts, version_table, schema, hadError, sessVars, auxVars>>

MigNext ==
    \/ \E target \in {HEAD} \cup AllRevs : Upgrade(target)
    \/ \E t \in (-MaxDown)..0 : DowngradeN(t)
    \/ \E target \in AllRevs : DowngradeRev(target)
    \/ \E rev \in Revisions(scripts) : Stamp(rev)
    \/ CurrentRevision

-----------------------------------------------------------------------------
(* The session: entities, tables and instances *)

\* two mapped classes; Article uses SoftDeleteMixin
Classes == {"User", "Article"}

SoftDeleteClass(cls) == cls = "Article"

PKs == 1..MaxPk

\* an instance whose primary key attribute is None
NoPk == 0

\* no instance (None)
NoObj == 0

EmptyTable == [p \in PKs |-> "absent"]

\* the row an instance's column values make
RowOf(instance) == IF instance.del THEN "deleted" ELSE "live"

\* Base.__init__: a new instance has no primary key and no deleted_at
NewInstance(cls) == [cls |-> cls, pk |-> NoPk, del |-> FALSE]

\* Base._from_row_fast: an instance made from the row with primary key p
FromRow(cls, table, p) == [cls |-> cls, pk |-> p, del |-> table[p] = "deleted"]

\* the state one session call works on
State == [db |-> db, nextPk |-> nextPk, objs |-> objs,
          identity_map |-> identity_map, pending_new |-> pending_new,
          pending_dirty |-> pending_dirty, pending_delete |-> pending_delete]

RECURSIVE SetToSeq(_)
\* rows come back in primary key order
SetToSeq(S) ==
    IF S = {} THEN <<>>
    ELSE LET m == CHOOSE x \in S : \A y \in S : x <= y
         IN <<m>> \o SetToSeq(S \ {m})

-----------------------------------------------------------------------------
(* Query *)

\* AsyncSession.query(model).filter(pk = filt); filt = NoPk is no filter
Query(cls, filt) ==
    [model |-> cls, include_deleted |-> FALSE, only_deleted |-> FALSE,
     filt |-> filt, limit_val |-> 0]

with_deleted(q) == [q EXCEPT !.include_deleted = TRUE]

only_deleted(q) == [q EXCEPT !.include_deleted = TRUE, !.only_deleted = TRUE]

Modes == {"default", "with_deleted", "only_deleted"}

\* the query a caller builds for a mode
QueryFor(cls, mode, filt) ==
    CASE mode = "default" -> Query(cls, filt)
      [] mode = "with_deleted" -> with_deleted(Query(cls, filt))
      [] mode = "only_deleted" -> only_deleted(Query(cls, filt))

\* the simple filters of the query: pk = filt
FilterMatches(q, p) == q.filt = NoPk \/ q.filt = p

\* the soft delete condition with only_deleted treated as with_deleted
SoftDeleteFilterNoOnly(q, row) ==
    IF SoftDeleteClass(q.model) /\ ~q.include_deleted THEN row = "live" ELSE TRUE

\* the soft delete condition the WHERE clause starts with
SoftDeleteFilter(q, row) ==
    IF SoftDeleteClass(q.model)
    THEN IF ~q.include_deleted THEN row = "live"
         ELSE IF q.only_deleted THEN row = "deleted"
         ELSE TRUE
    ELSE TRUE

\* the primary keys of the rows the query's WHERE clause selects
BuildWhereClause(q, table) ==
    {p \in PKs : /\ table[p] # "absent"
                 /\ SoftDeleteFilter(q, table[p])
                 /\ FilterMatches(q, p)}

\* SELECT with the query's WHERE and LIMIT
BuildSelectSql(q, table) ==
    LET rows == SetToSeq(BuildWhereClause(q, table))
    IN IF q.limit_val > 0 /\ q.limit_val < Len(rows)
       THEN SubSeq(rows, 1, q.limit_val) ELSE rows

\* the WHERE clause of bulk_update: the filters alone
BulkUpdateWhere(q, table) ==
    {p \in PKs : table[p] # "absent" /\ FilterMatches(q, p)}

\* the query stream() runs for each window: the filters are copied, the
\* soft delete mode is not
BatchQuery(q) == Query(q.model, q.filt)

\* to_models: one new instance per row, appended to the instances
Hydrate(st, cls, rows) ==
    [st EXCEPT !.objs = st.objs \o [i \in 1..Len(rows) |-> FromRow(cls, st.db[cls], rows[i])]]

-----------------------------------------------------------------------------
(* Unit of work: the flush *)

\* the rows RETURNING gives back for n tuples: the next primary keys, in
\* the order of the tuples
ReturningRows(st, cls, n) == [i \in 1..n |-> st.nextPk[cls] + i - 1]

RECURSIVE WriteBackUnmapped(_, _, _, _, _)
\* the write back without the identity map
WriteBackUnmapped(st, cls, instances, rows, i) ==
    IF i > Len(instances) \/ i > Len(rows) THEN st
    ELSE WriteBackUnmapped([st EXCEPT !.objs[instances[i]].pk = rows[i]],
                           cls, instances, rows, i + 1)

RECURSIVE WriteBack(_, _, _, _, _)
\* the i-th instance gets the primary key of the i-th returned row and
\* enters the identity map under it
WriteBack(st, cls, instances, rows, i) ==
    IF i > Len(instances) \/ i > Len(rows) THEN st
    ELSE WriteBack([st EXCEPT !.objs[instances[i]].pk = rows[i],
                              !.identity_map[cls][rows[i]] = instances[i]],
                   cls, instances, rows, i + 1)

\* one INSERT ... RETURNING for the instances of one class: each tuple
\* becomes a row under the next primary key, then the keys are written back
InsertBatch(st, cls, instances) ==
    LET rows == ReturningRows(st, cls, Len(instances))
        written == [st EXCEPT
            !.db[cls] = [p \in PKs |->
                IF \E i \in 1..Len(rows) : rows[i] = p
                THEN RowOf(st.objs[instances[CHOOSE i \in 1..Len(rows) : rows[i] = p]])
                ELSE @[p]],
            !.nextPk[cls] = @ + Len(instances)]
    IN WriteBack(written, cls, instances, rows, 1)

RECURSIVE ByClass(_, _, _)
\* the classes of the pending instances, in order of first appearance
ByClass(pending, instances, seen) ==
    IF pending = <<>> THEN <<>>
    ELSE LET cls == instances[Head(pending)].cls
         IN IF cls \in seen THEN ByClass(Tail(pending), instances, seen)
            ELSE <<cls>> \o ByClass(Tail(pending), instances, seen \cup {cls})

InstancesOf(pending, instances, cls) ==
    SelectSeq(pending, LAMBDA o : instances[o].cls = cls)

RECURSIVE FlushClasses(_, _, _, _)
FlushClasses(st, classes, i, fail) ==
    IF classes = <<>> THEN [st |-> [st EXCEPT !.pending_new = <<>>], raised |-> FALSE]
    ELSE IF i = fail THEN [st |-> st, raised |-> TRUE]
    ELSE FlushClasses(InsertBatch(st, Head(classes),
                                  InstancesOf(st.pending_new, st.objs, Head(classes))),
                      Tail(classes), i + 1, fail)

\* _flush_inserts; the statement of the fail-th class raises (0: none does)
FlushInserts(st, fail) ==
    FlushClasses(st, ByClass(st.pending_new, st.objs, {}), 1, fail)

\* _flush_deletes that leaves the identity map as it is
RECURSIVE DeleteEachKeepingCache(_, _, _)
DeleteEachKeepingCache(st, j, fail) ==
    IF j > Len(st.pending_delete)
    THEN [st |-> [st EXCEPT !.pending_delete = <<>>], raised |-> FALSE]
    ELSE LET obj == st.objs[st.pending_delete[j]]
         IN IF obj.pk = NoPk THEN DeleteEachKeepingCache(st, j + 1, fail)
            ELSE IF j = fail THEN [st |-> st, raised |-> TRUE]
            ELSE DeleteEachKeepingCache([st EXCEPT !.db[obj.cls][obj.pk] = "absent"],
                                        j + 1, fail)

RECURSIVE DeleteEach(_, _, _)
DeleteEach(st, j, fail) ==
    IF j > Len(st.pending_delete)
    THEN [st |-> [st EXCEPT !.pending_delete = <<>>], raised |-> FALSE]
    ELSE LET obj == st.objs[st.pending_delete[j]]
         IN IF obj.pk = NoPk THEN DeleteEach(st, j + 1, fail)
            ELSE IF j = fail THEN [st |-> st, raised |-> TRUE]
            ELSE DeleteEach([st EXCEPT !.db[obj.cls][obj.pk] = "absent",
                                       !.identity_map[obj.cls][obj.pk] = NoObj],
                            j + 1, fail)

\* _flush_deletes; the statement of the fail-th entry raises (0: none does)
FlushDeletes(st, fail) == DeleteEach(st, 1, fail)

\* AsyncSession.commit
\* commit that flushes the deletes before the inserts
CommitStateDeletesFirst(st, failInsert, failDelete) ==
    LET r == IF st.pending_delete # <<>> THEN FlushDeletes(st, failDelete)
             ELSE [st |-> st, raised |-> FALSE]
    IN IF r.raised THEN r
       ELSE IF r.st.pending_new # <<>> THEN FlushInserts(r.st, failInsert)
       ELSE r

CommitState(st, failInsert, failDelete) ==
    LET r == IF st.pending_new # <<>> THEN FlushInserts(st, failInsert)
             ELSE [st |-> st, raised |-> FALSE]
    IN IF r.raised THEN r
       ELSE IF r.st.pending_delete # <<>> THEN FlushDeletes(r.st, failDelete)
       ELSE r

\* a rollback that keeps the pending inserts
RollbackStateKeepNew(st) ==
    [st EXCEPT !.pending_dirty = <<>>, !.pending_delete = <<>>]

\* AsyncSession.rollback
RollbackState(st) ==
    [st EXCEPT !.pending_new = <<>>, !.pending_dirty = <<>>, !.pending_delete = <<>>]

\* the points at which a flush of st can fail: (0, 0) is no failure
FailPoints(st) ==
    {<<0, 0>>}
    \cup {<<i, 0>> : i \in 1..Len(ByClass(st.pending_new, st.objs, {}))}
    \cup {<<0, j>> : j \in 1..Len(st.pending_delete)}

\* the tables have room for the rows a flush of st inserts
HasRoom(st) ==
    \A cls \in Classes :
        st.nextPk[cls] + Len(InstancesOf(st.pending_new, st.objs, cls)) <= MaxPk + 1

-----------------------------------------------------------------------------
(* The session's calls *)

NoOp ==
    [op |-> "none", model |-> "", id |-> NoPk,
     include_deleted |-> FALSE, only_deleted |-> FALSE,
     result |-> <<>>, rows |-> {}, sql |-> 0, raised |-> FALSE,
     calls |-> 0, prev_result |-> <<>>, prev_sql |-> 0,
     body_raised |-> FALSE, cancelled |-> FALSE, added |-> {},
     batch_size |-> 0]

NoScope == [active |-> FALSE, added |-> {}]

Becomes(st, op) ==
    /\ db' = st.db
    /\ nextPk' = st.nextPk
    /\ objs' = st.objs
    /\ identity_map' = st.identity_map
    /\ pending_new' = st.pending_new
    /\ pending_dirty' = st.pending_dirty
    /\ pending_delete' = st.pending_delete
    /\ lastOp' = op
    /\ UNCHANGED <<autoflush, dialect, migVars, auxVars>>

\* the tables a pool can hold: only a soft delete class has deleted rows
Tables(cls) ==
    [PKs -> IF SoftDeleteClass(cls) THEN {"absent", "live", "deleted"}
            ELSE {"absent", "live"}]

\* the autoincrement key after the rows of a table
NextPkOf(table) ==
    LET used == {p \in PKs : table[p] # "absent"}
    IN IF used = {} THEN 1 ELSE 1 + CHOOSE p \in used : \A r \in used : r <= p

EmptyTables == [cls \in Classes |-> EmptyTable]

\* no _batch_insert call is under study
NoBatching ==
    [columns |-> 0, instances |-> 0, done |-> FALSE, raised |-> FALSE,
     batches |-> <<>>]

\* no rows to load relationships from
NoStore ==
    [n |-> 0, author_id |-> [p \in 1..MaxParents |-> 0], user |-> FALSE,
     comment |-> 0, link |-> {}, explicit_fk |-> FALSE]

\* no query with a load plan has run
NoLoad ==
    [op |-> "none", plan |-> <<>>, filt |-> "none", batch_size |-> 0,
     raised |-> FALSE, sql |-> 0, result |-> <<>>]

\* the target rows a many-to-many collection can be given
TargetPks == {(i + 1) \div 2 : i \in 1..MaxItems}

\* no many-to-many collection is under study
NoM2M ==
    [unique |-> TRUE, junction |-> [t \in TargetPks |-> 0], collection |-> <<>>,
     op |-> "none", item |-> 0, again |-> FALSE,
     prev_junction |-> [t \in TargetPks |-> 0], prev_collection |-> <<>>]

\* an empty users table and no upsert call yet
NoUpsert ==
    [unique_email |-> TRUE, table |-> <<>>, op |-> "none",
     x_in |-> [id |-> 0, email |-> 0, name |-> 0],
     x |-> [id |-> 0, email |-> 0, name |-> 0],
     target |-> "", update_fields |-> {}, do_nothing |-> FALSE,
     raised |-> FALSE, again |-> FALSE, prev_table |-> <<>>]

\* no function call is under study
NoCall == [fn |-> "none"]

\* the state of the flush, load and collection machines at the start
AuxStart(b, s, m, u) ==
    /\ batching = b
    /\ store = s
    /\ loaded = NoLoad
    /\ m2m = m
    /\ ups = u
    /\ fnCall = NoCall

\* a new session on a pool that holds the tables
SessStart(tables, flush, dia) ==
    /\ db = tables
    /\ nextPk = [cls \in Classes |-> NextPkOf(tables[cls])]
    /\ objs = <<>>
    /\ identity_map = [cls \in Classes |-> [p \in PKs |-> NoObj]]
    /\ pending_new = <<>>
    /\ pending_dirty = <<>>
    /\ pending_delete = <<>>
    /\ autoflush = flush
    /\ dialect = dia
    /\ scope = NoScope
    /\ lastOp = NoOp

\* inside a begin() scope add() notes the instances that have no row yet
Noted(o, instances) ==
    IF scope.active /\ instances[o].pk = NoPk
    THEN [scope EXCEPT !.added = @ \cup {o}] ELSE scope

\* AsyncSession.add(cls(...)): the caller adds a new instance
Add(cls) ==
    LET o == Len(objs) + 1
        instances == Append(objs, NewInstance(cls))
    IN /\ Len(objs) < MaxObjs
       /\ Len(pending_new) < MaxQueue
       /\ scope' = Noted(o, instances)
       /\ Becomes([State EXCEPT !.objs = instances, !.pending_new = Append(@, o)],
                  [NoOp EXCEPT !.op = "add", !.result = <<o>>])

\* AsyncSession.delete(instance)
Delete(o) ==
    /\ Len(pending_delete) < MaxQueue
    /\ UNCHANGED scope
    /\ Becomes([State EXCEPT !.pending_delete = Append(@, o)],
               [NoOp EXCEPT !.op = "delete", !.result = <<o>>])

\* AsyncSession.commit(); inside a begin() scope the caller leaves commit
\* and rollback to the scope
Commit ==
    /\ ~scope.active
    /\ HasRoom(State)
    /\ UNCHANGED scope
    /\ \E f \in FailPoints(State) :
         LET r == CommitState(State, f[1], f[2])
         IN Becomes(r.st, [NoOp EXCEPT !.op = "commit", !.raised = r.raised])

\* delete(instance) followed by commit(), recorded as the call name
RemoveAs(name, o) ==
    LET queued == [State EXCEPT !.pending_delete = Append(@, o)]
    IN /\ ~scope.active
       /\ Len(pending_delete) < MaxQueue
       /\ HasRoom(queued)
       /\ UNCHANGED scope
       /\ \E f \in FailPoints(queued) :
            LET r == CommitState(queued, f[1], f[2])
            IN Becomes(r.st, [NoOp EXCEPT !.op = name, !.result = <<o>>,
                                          !.raised = r.raised])

\* AsyncSession.remove(instance)
Remove(o) == RemoveAs("remove", o)

\* AsyncSession.force_delete(instance)
ForceDelete(o) == RemoveAs("force_delete", o)

\* AsyncSession.rollback()
Rollback ==
    /\ ~scope.active
    /\ UNCHANGED scope
    /\ Becomes(RollbackState(State), [NoOp EXCEPT !.op = "rollback"])

\* AsyncSession.insert(cls(...)): add and commit
Insert(cls) ==
    LET o == Len(objs) + 1
        st == [State EXCEPT !.objs = Append(@, NewInstance(cls)),
                            !.pending_new = Append(@, o)]
    IN /\ ~scope.active
       /\ Len(objs) < MaxObjs
       /\ HasRoom(st)
       /\ UNCHANGED scope
       /\ \E f \in FailPoints(st) :
            LET r == CommitState(st, f[1], f[2])
            IN Becomes(r.st, [NoOp EXCEPT !.op = "insert", !.model = cls,
                                          !.result = <<o>>, !.raised = r.raised])

\* AsyncSession.insert_all([cls(...), ...]): add_all and commit
InsertAll(clss) ==
    LET news == [i \in 1..Len(clss) |-> Len(objs) + i]
        st == [State EXCEPT !.objs = @ \o [i \in 1..Len(clss) |-> NewInstance(clss[i])],
                            !.pending_new = @ \o news]
    IN /\ ~scope.active
       /\ Len(objs) + Len(clss) <= MaxObjs
       /\ HasRoom(st)
       /\ UNCHANGED scope
       /\ \E f \in FailPoints(st) :
            LET r == CommitState(st, f[1], f[2])
            IN Becomes(r.st, [NoOp EXCEPT !.op = "insert_all", !.result = news,
                                          !.raised = r.raised])

\* the statement of upsert: INSERT ... ON CONFLICT; conflict is the row the
\* conflict target matches (NoPk: none). The result is the tables and the
\* primary key of the row written (NoPk: none was).
UpsertStatement(st, instance, conflict, do_nothing) ==
    LET cls == instance.cls
        p == st.nextPk[cls]
    IN IF conflict = NoPk
       THEN [st |-> [st EXCEPT !.db[cls][p] = RowOf(instance), !.nextPk[cls] = p + 1],
             row |-> p]
       ELSE IF do_nothing THEN [st |-> st, row |-> NoPk]
       ELSE [st |-> [st EXCEPT !.db[cls][conflict] = RowOf(instance)], row |-> conflict]

\* the row upsert reads back: RETURNING * on PostgreSQL; on SQLite a SELECT
\* by the conflict target, which do_nothing skips
UpsertReadBack(row, conflict, do_nothing) ==
    IF dialect = "postgresql" THEN row
    ELSE IF do_nothing THEN NoPk
    ELSE row

\* AsyncSession.upsert(cls(...), conflict_target, do_nothing = do_nothing)
Upsert(cls, conflict, do_nothing) ==
    LET o == Len(objs) + 1
        w == UpsertStatement(State, NewInstance(cls), conflict, do_nothing)
        back == UpsertReadBack(w.row, conflict, do_nothing)
        op == [NoOp EXCEPT !.op = "upsert", !.model = cls, !.id = conflict,
                           !.result = <<o>>]
    IN /\ Len(objs) < MaxObjs
       /\ conflict # NoPk => db[cls][conflict] # "absent"
       /\ conflict = NoPk => nextPk[cls] <= MaxPk
       /\ UNCHANGED scope
       /\ \/ Becomes([State EXCEPT !.objs = Append(@, NewInstance(cls))],
                      [op EXCEPT !.raised = TRUE])
          \/ Becomes([w.st EXCEPT
                        !.objs = Append(@, [NewInstance(cls) EXCEPT !.pk = back]),
                        !.identity_map[cls] =
                            [p \in PKs |-> IF p = back THEN o ELSE @[p]]],
                     [op EXCEPT !.sql = IF dialect = "sqlite" /\ ~do_nothing THEN 2 ELSE 1])

\* execute that sends the statement without flushing
ExecuteWithoutFlush ==
    /\ HasRoom(State)
    /\ UNCHANGED scope
    /\ Becomes(State, [NoOp EXCEPT !.op = "execute", !.sql = 1])

\* AsyncSession.execute(select(...)): autoflush, then the statement
Execute ==
    /\ HasRoom(State)
    /\ UNCHANGED scope
    /\ IF autoflush /\ pending_new # <<>>
       THEN \E fail \in 0..Len(ByClass(pending_new, objs, {})) :
              LET r == FlushInserts(State, fail)
              IN Becomes(r.st, [NoOp EXCEPT !.op = "execute", !.raised = r.raised,
                                            !.sql = IF r.raised THEN 0 ELSE 1])
       ELSE Becomes(State, [NoOp EXCEPT !.op = "execute", !.sql = 1])

\* get() on a miss: the instance found is not remembered
CacheNothing(st, cls, id, o) == st

\* get() on a miss: the instance found enters the identity map
Cache(st, cls, id, o) == [st EXCEPT !.identity_map[cls][id] = o]

\* Query.first(): LIMIT 1
FirstRows(q, table) == BuildSelectSql([q EXCEPT !.limit_val = 1], table)

\* AsyncSession.get(model, id, include_deleted = incl)
Get(cls, id, incl) ==
    LET cached == identity_map[cls][id]
        q0 == Query(cls, id)
        q == IF incl THEN with_deleted(q0) ELSE q0
        rows == FirstRows(q, db[cls])
        o == Len(objs) + 1
        again == /\ lastOp.op = "get" /\ lastOp.model = cls /\ lastOp.id = id
                 /\ lastOp.include_deleted = incl
        op == [NoOp EXCEPT !.op = "get", !.model = cls, !.id = id,
                           !.include_deleted = incl,
                           !.calls = IF again THEN 2 ELSE 1,
                           !.prev_result = IF again THEN lastOp.result ELSE <<>>,
                           !.prev_sql = IF again THEN lastOp.sql ELSE 0]
    IN /\ UNCHANGED scope
       /\ IF cached # NoObj
          THEN Becomes(State,
                       [op EXCEPT !.result =
                           IF ~incl /\ SoftDeleteClass(cls) /\ objs[cached].del
                           THEN <<>> ELSE <<cached>>])
          ELSE IF rows = <<>>
          THEN Becomes(State, [op EXCEPT !.sql = 1])
          ELSE /\ Len(objs) < MaxObjs
               /\ Becomes(Cache(Hydrate(State, cls, rows), cls, id, o),
                          [op EXCEPT !.sql = 1, !.result = <<o>>])

\* the instances a select of the rows returns: new ones
Fresh(rows) == [i \in 1..Len(rows) |-> Len(objs) + i]

QueryOp(name, q) ==
    [NoOp EXCEPT !.op = name, !.model = q.model, !.id = q.filt,
                 !.include_deleted = q.include_deleted,
                 !.only_deleted = q.only_deleted]

\* Query.all()
All(q) ==
    LET rows == BuildSelectSql(q, db[q.model])
    IN /\ Len(objs) + Len(rows) <= MaxObjs
       /\ UNCHANGED scope
       /\ Becomes(Hydrate(State, q.model, rows),
                  [QueryOp("all", q) EXCEPT !.result = Fresh(rows), !.sql = 1,
                                            !.rows = {rows[i] : i \in 1..Len(rows)}])

\* Query.first()
First(q) ==
    LET rows == FirstRows(q, db[q.model])
    IN /\ Len(objs) + Len(rows) <= MaxObjs
       /\ UNCHANGED scope
       /\ Becomes(Hydrate(State, q.model, rows),
                  [QueryOp("first", q) EXCEPT !.result = Fresh(rows), !.sql = 1,
                                              !.rows = {rows[i] : i \in 1..Len(rows)}])

\* Query.count()
Count(q) ==
    /\ UNCHANGED scope
    /\ Becomes(State, [QueryOp("count", q) EXCEPT !.sql = 1,
                           !.rows = BuildWhereClause(q, db[q.model])])

\* Query.exists(): count() > 0
Exists(q) ==
    /\ UNCHANGED scope
    /\ Becomes(State, [QueryOp("exists", q) EXCEPT !.sql = 1,
                           !.rows = BuildWhereClause(q, db[q.model])])

\* Query.delete(): DELETE with the query's WHERE clause
QueryDelete(q) ==
    LET rows == BuildWhereClause(q, db[q.model])
    IN /\ UNCHANGED scope
       /\ Becomes([State EXCEPT !.db[q.model] =
                       [p \in PKs |-> IF p \in rows THEN "absent" ELSE @[p]]],
                  [QueryOp("delete_rows", q) EXCEPT !.sql = 1, !.rows = rows])

\* Query.update(deleted_at = value): bulk_update with the query's filters;
\* deleted is whether the value is a timestamp
QueryUpdate(q, deleted) ==
    LET rows == BulkUpdateWhere(q, db[q.model])
    IN /\ SoftDeleteClass(q.model)
       /\ UNCHANGED scope
       /\ Becomes([State EXCEPT !.db[q.model] =
                       [p \in PKs |-> IF p \in rows
                                      THEN (IF deleted THEN "deleted" ELSE "live")
                                      ELSE @[p]]],
                  [QueryOp("update_rows", q) EXCEPT !.sql = 1, !.rows = rows])

RECURSIVE Windows(_, _, _, _)
\* the windows stream() fetches: LIMIT batch_size OFFSET offset, until one
\* comes back empty or short
Windows(rows, batch_size, offset, fetched) ==
    LET window == SubSeq(rows, offset + 1,
                         IF offset + batch_size < Len(rows)
                         THEN offset + batch_size ELSE Len(rows))
    IN IF window = <<>> THEN [rows |-> <<>>, sql |-> fetched + 1]
       ELSE IF Len(window) < batch_size THEN [rows |-> window, sql |-> fetched + 1]
       ELSE LET rest == Windows(rows, batch_size, offset + batch_size, fetched + 1)
            IN [rows |-> window \o rest.rows, sql |-> rest.sql]

\* Query.stream(batch_size), iterated to its end
Stream(q, batch_size) ==
    LET w == Windows(BuildSelectSql(BatchQuery(q), db[q.model]), batch_size, 0, 0)
    IN /\ Len(objs) + Len(w.rows) <= MaxObjs
       /\ UNCHANGED scope
       /\ Becomes(Hydrate(State, q.model, w.rows),
                  [QueryOp("stream", q) EXCEPT !.result = Fresh(w.rows), !.sql = w.sql,
                                               !.batch_size = batch_size,
                                               !.rows = {w.rows[i] : i \in 1..Len(w.rows)}])

\* AsyncSession.update(instance, deleted_at = value): the attribute is set,
\* then UPDATE ... WHERE pk = the instance's primary key, which may raise
UpdateDeleted(st, o, deleted, fail) ==
    LET obj == st.objs[o]
        st1 == [st EXCEPT !.objs[o].del = deleted]
    IN IF fail \/ obj.pk = NoPk \/ st.db[obj.cls][obj.pk] = "absent" THEN st1
       ELSE [st1 EXCEPT !.db[obj.cls][obj.pk] = IF deleted THEN "deleted" ELSE "live"]

\* AsyncSession.soft_delete(instance)
SoftDelete(o) ==
    /\ UNCHANGED scope
    /\ IF ~SoftDeleteClass(objs[o].cls)
       THEN Becomes(State, [NoOp EXCEPT !.op = "soft_delete", !.result = <<o>>,
                                        !.raised = TRUE])
       ELSE \E fail \in BOOLEAN :
              Becomes(UpdateDeleted(State, o, TRUE, fail),
                      [NoOp EXCEPT !.op = "soft_delete", !.result = <<o>>,
                                   !.sql = 1, !.raised = fail])

\* AsyncSession.restore(instance)
Restore(o) ==
    /\ UNCHANGED scope
    /\ IF ~SoftDeleteClass(objs[o].cls)
       THEN Becomes(State, [NoOp EXCEPT !.op = "restore", !.result = <<o>>,
                                        !.raised = TRUE])
       ELSE \E fail \in BOOLEAN :
              Becomes(UpdateDeleted(State, o, FALSE, fail),
                      [NoOp EXCEPT !.op = "restore", !.result = <<o>>,
                                   !.sql = 1, !.raised = fail])

\* async with session.begin(): the scope is entered
Begin ==
    /\ ~scope.active
    /\ scope' = [active |-> TRUE, added |-> {}]
    /\ Becomes(State, [NoOp EXCEPT !.op = "begin"])

\* the body of the scope ends without raising: commit(), and rollback()
\* when the commit raises
BeginExit ==
    /\ scope.active
    /\ HasRoom(State)
    /\ scope' = NoScope
    /\ \E f \in FailPoints(State) :
         LET r == CommitState(State, f[1], f[2])
         IN Becomes(IF r.raised THEN RollbackState(r.st) ELSE r.st,
                    [NoOp EXCEPT !.op = "begin_exit", !.raised = r.raised,
                                 !.added = scope.added])

\* the body of the scope raises: rollback(), and the exception goes on
BeginRaise ==
    /\ scope.active
    /\ scope' = NoScope
    /\ Becomes(RollbackState(State),
               [NoOp EXCEPT !.op = "begin_exit", !.raised = TRUE,
                            !.body_raised = TRUE, !.added = scope.added])

\* the task is cancelled while the scope is suspended at a round trip, in
\* its body (fail point (0, 0)) or at a statement of the commit() of its
\* exit: CancelledError is not an Exception, so the except branch is passed
\* by and nothing is rolled back
BeginCancel ==
    /\ scope.active
    /\ HasRoom(State)
    /\ scope' = NoScope
    /\ \E f \in FailPoints(State) :
         Becomes(IF f = <<0, 0>> THEN State ELSE CommitState(State, f[1], f[2]).st,
                 [NoOp EXCEPT !.op = "begin_exit", !.raised = TRUE,
                              !.cancelled = TRUE, !.added = scope.added])

Instances == 1..Len(objs)

Queries == {QueryFor(cls, mode, filt) : cls \in Classes, mode \in Modes, filt \in {NoPk} \cup PKs}

\* the unit of work: pending queues, flush and begin() scope
SessNext ==
    \/ \E cls \in Classes : Add(cls)
    \/ \E o \in Instances : Delete(o)
    \/ Commit
    \/ Rollback
    \/ Execute
    \/ Begin
    \/ BeginExit
    \/ BeginRaise
    \/ BeginCancel

\* get() and the calls that change what it finds
GetNext ==
    \/ \E cls \in Classes : Insert(cls)
    \/ \E cls \in Classes, id \in PKs, incl \in BOOLEAN : Get(cls, id, incl)
    \/ \E o \in Instances : SoftDelete(o)
    \/ \E o \in Instances : Restore(o)

\* remove() and force_delete(), with the calls that fill the tables, the
\* identity map and the pending queues
RemoveNext ==
    \/ \E cls \in Classes : Add(cls)
    \/ \E cls \in Classes : Insert(cls)
    \/ \E cls \in Classes, id \in PKs, incl \in BOOLEAN : Get(cls, id, incl)
    \/ \E o \in Instances : Delete(o)
    \/ \E o \in Instances : Remove(o)
    \/ \E o \in Instances : ForceDelete(o)

\* the calls that write rows and hand their keys to instances
InsertNext ==
    \/ \E cls \in Classes : Insert(cls)
    \/ \E n \in 1..MaxQueue : \E clss \in [1..n -> Classes] : InsertAll(clss)
    \/ \E cls \in Classes, conflict \in {NoPk} \cup PKs, do_nothing \in BOOLEAN :
         Upsert(cls, conflict, do_nothing)

\* the calls that return instances: insert, get and the query
IdentityNext ==
    \/ GetNext
    \/ \E q \in Queries : All(q)

\* the queries on a class that uses SoftDeleteMixin
SoftQueries == {q \in Queries : SoftDeleteClass(q.model)}

\* the query's terminal operations, over a table that already holds rows
QueryNext ==
    \/ \E q \in SoftQueries : All(q)
    \/ \E q \in SoftQueries : First(q)
    \/ \E q \in SoftQueries : Count(q)
    \/ \E q \in SoftQueries : Exists(q)
    \/ \E q \in SoftQueries : QueryDelete(q)
    \/ \E q \in SoftQueries, deleted \in BOOLEAN : QueryUpdate(q, deleted)
    \/ \E q \in SoftQueries, batch_size \in 1..MaxBatch : Stream(q, batch_size)
    \/ \E o \in Instances : SoftDelete(o)
    \/ \E o \in Instances : Restore(o)

\* the runner over every script directory; the session is left alone
MigInit ==
    \E ss \in ScriptDirs : MigStart(ss) /\ SessStart(EmptyTables, TRUE, "sqlite")
                        /\ AuxStart(NoBatching, NoStore, NoM2M, NoUpsert)

\* a session on empty tables; the runner is left alone
SessInit ==
    \E flush \in BOOLEAN : MigStart(<<>>) /\ SessStart(EmptyTables, flush, "sqlite")
                         /\ AuxStart(NoBatching, NoStore, NoM2M, NoUpsert)

\* a session with the default autoflush on empty tables
IdentityInit ==
    /\ MigStart(<<>>)
    /\ SessStart(EmptyTables, TRUE, "sqlite")
    /\ AuxStart(NoBatching, NoStore, NoM2M, NoUpsert)

\* a session with the default autoflush on a pool whose tables hold at most
\* the row with primary key 1
GetInit ==
    \E tables \in [Classes -> [PKs -> {"absent", "live", "deleted"}]] :
        /\ \A cls \in Classes :
              tables[cls] \in Tables(cls) /\ NextPkOf(tables[cls]) <= 2
        /\ MigStart(<<>>)
        /\ SessStart(tables, TRUE, "sqlite")
        /\ AuxStart(NoBatching, NoStore, NoM2M, NoUpsert)

\* a session of either dialect on a pool whose tables hold at most the row
\* with primary key 1
InsertInit ==
    \E tables \in [Classes -> [PKs -> {"absent", "live", "deleted"}]],
       dia \in {"sqlite", "postgresql"} :
        /\ \A cls \in Classes :
              tables[cls] \in Tables(cls) /\ NextPkOf(tables[cls]) <= 2
        /\ MigStart(<<>>)
        /\ SessStart(tables, TRUE, dia)
        /\ AuxStart(NoBatching, NoStore, NoM2M, NoUpsert)

\* a session on a pool whose soft delete table already holds rows
QueryInit ==
    \E table \in Tables("Article") :
        /\ MigStart(<<>>)
        /\ SessStart([EmptyTables EXCEPT !["Article"] = table], TRUE, "sqlite")
        /\ AuxStart(NoBatching, NoStore, NoM2M, NoUpsert)

-----------------------------------------------------------------------------
(* _batch_insert: the split of the instances of one class into INSERTs.    *)
(* A call is given by the number of insert columns of the class and the    *)
(* number of pending instances; a batch is the slice of the instance list  *)
(* it inserts and the number of bind parameters of its statement.          *)

\* the bind parameter budget of one INSERT on SQLite
SqliteMaxParams == 900
\* the bind parameter budget of one INSERT on PostgreSQL
PostgresMaxParams == 30000

\* max_params = 900 if self._dialect == "sqlite" else 30000
MaxParams(dia) == IF dia = "sqlite" THEN SqliteMaxParams ELSE PostgresMaxParams

BatchSizeRows(max_params, columns) == max_params

\* batch_size = max_params // len(columns)
BatchSize(max_params, columns) == max_params \div columns

\* range(start, n, step) for a positive step
RECURSIVE BatchStarts(_, _, _)
BatchStarts(start, n, step) ==
    IF start >= n THEN <<>>
    ELSE <<start>> \o BatchStarts(start + step, n, step)

\* instances[batch_start:batch_start + batch_size] handed to _insert_batch,
\* which appends one parameter per instance and column
Batch(batch_start, batch_size, n, columns) ==
    LET size == IF batch_start + batch_size <= n THEN batch_size
                ELSE n - batch_start
    IN [start |-> batch_start, size |-> size, params |-> size * columns]

\* _batch_insert for n >= 1 instances: no statement for a class without
\* insert columns; range() raises ValueError on a step of zero
BatchInsertCall(dia, columns, n) ==
    LET done == [columns |-> columns, instances |-> n, done |-> TRUE,
                 raised |-> FALSE, batches |-> <<>>]
    IN IF columns = 0 THEN done
       ELSE LET batch_size == BatchSize(MaxParams(dia), columns)
            IN IF batch_size = 0 THEN [done EXCEPT !.raised = TRUE]
               ELSE LET starts == BatchStarts(0, n, batch_size)
                    IN [done EXCEPT !.batches =
                           [k \in 1..Len(starts) |->
                               Batch(starts[k], batch_size, n, columns)]]

BatchInsert ==
    /\ ~batching.done
    /\ batching.instances > 0
    /\ batching' = BatchInsertCall(dialect, batching.columns, batching.instances)
    /\ UNCHANGED <<migVars, sessVars, store, loaded, m2m, ups, fnCall>>

\* column counts around the values where the batch size changes
ColumnCounts(max_params) ==
    (0..Spread)
        \cup {max_params \div 2 + d : d \in 0..Spread}
        \cup {max_params - d : d \in 0..Spread}
        \cup {max_params + d : d \in 1..Spread}

\* instance counts around the multiples of the batch size
InstanceCounts(batch_size) ==
    {n \in {1} \cup {k * batch_size + d : k \in 1..Spread, d \in {-1, 0, 1}}
             \cup (1..Spread) : n >= 1}

\* a flush about to insert n instances of a class with c insert columns
BatchInit ==
    \E dia \in {"sqlite", "postgresql"} :
        \E c \in ColumnCounts(MaxParams(dia)) :
            \E n \in InstanceCounts(IF c = 0 THEN 0 ELSE MaxParams(dia) \div c) :
                /\ MigStart(<<>>)
                /\ SessStart(EmptyTables, TRUE, dia)
                /\ AuxStart([NoBatching EXCEPT !.columns = c, !.instances = n],
                            NoStore, NoM2M, NoUpsert)

-----------------------------------------------------------------------------
(* The relationship loader.  Post is the queried entity; author is its     *)
(* many-to-one relationship to User through posts.author_id, comments its  *)
(* one-to-many relationship to Comment through comments.post_id, tags its  *)
(* many-to-many relationship to Tag through the junction table post_tags.  *)
(* A relationship value is the sequence of the primary keys of the         *)
(* instances it holds: <<>> is None or the empty list.                     *)

Rels == {"author", "comments", "tags"}

\* the relationship is absent from _loaded_relationships: reading it raises
Unloaded == <<-1>>

\* resolve() looks the foreign key columns up only when the relationship was
\* declared without foreign_keys
FkResolved(rel) == ~(rel = "author" /\ store.explicit_fk)

\* _build_join_info: a LEFT JOIN per joined entry of a many-to-one
\* relationship whose columns are resolved
JoinInfos(plan) ==
    SelectSeq(plan, LAMBDA e : e.strategy = "joined" /\ e.rel = "author"
                               /\ FkResolved(e.rel))

\* the WHERE clause names its columns without the alias of the main table:
\* with a join in the FROM clause a column that users has too (id, name) is
\* ambiguous and the statement fails
Ambiguous(plan, filt) == JoinInfos(plan) # <<>> /\ filt \in {"id", "name"}

\* the parents the base query selects: filter(id=1) or filter(author_id=1)
BaseRows(filt) ==
    SelectSeq([p \in 1..store.n |-> p],
              LAMBDA p : CASE filt = "none" -> TRUE
                           [] filt = "id" -> p = 1
                           [] filt = "author_id" -> store.author_id[p] = 1)

\* _hydrate_with_joins: the joined columns of the row hold data only when
\* the LEFT JOIN found the target row
HydrateWithJoins(p) ==
    LET has_data == store.author_id[p] # 0 /\ store.user
    IN IF has_data THEN <<store.author_id[p]>> ELSE <<>>

SelectinSqlPerParent(insts, rel) == Len(insts)

\* the statements _load_selectin issues for the instances of one batch
SelectinSql(insts, rel) ==
    CASE rel = "tags" ->
            IF \E i \in 1..Len(insts) : insts[i] \in store.link THEN 2 ELSE 1
      [] rel = "comments" -> 1
      [] rel = "author" ->
            IF ~FkResolved(rel) THEN 0
            ELSE IF \E i \in 1..Len(insts) : store.author_id[insts[i]] # 0
                 THEN 1 ELSE 0

\* the value _load_selectin sets on parent p, if it sets one
SelectinValue(insts, p, rel) ==
    CASE rel = "tags" -> IF p \in store.link THEN <<1>> ELSE <<>>
      [] rel = "comments" -> IF store.comment = p THEN <<1>> ELSE <<>>
      [] rel = "author" ->
            IF ~FkResolved(rel) THEN Unloaded
            ELSE IF store.author_id[p] # 0 /\ store.user
                 THEN <<store.author_id[p]>> ELSE <<>>

\* _apply_load_options on a non-empty batch: the statements of its entries
ApplySql(insts, plan) ==
    LET joined == {JoinInfos(plan)[i].rel : i \in 1..Len(JoinInfos(plan))}
        upto[i \in 0..Len(plan)] ==
            IF i = 0 THEN 0
            ELSE upto[i - 1]
                 + (IF plan[i].rel \in joined \/ plan[i].strategy = "noload"
                    THEN 0 ELSE SelectinSql(insts, plan[i].rel))
    IN upto[Len(plan)]

\* the relationship rel of parent p after hydration and _apply_load_options
Populated(insts, p, rel, plan) ==
    LET joined == {JoinInfos(plan)[i].rel : i \in 1..Len(JoinInfos(plan))}
        set(e) == IF e.rel \in joined THEN HydrateWithJoins(p)
                  ELSE IF e.strategy = "noload" THEN <<>>
                  ELSE SelectinValue(insts, p, e.rel)
        setters == {i \in 1..Len(plan) :
                       plan[i].rel = rel /\ set(plan[i]) # Unloaded}
    IN IF setters = {} THEN Unloaded
       ELSE set(plan[CHOOSE i \in setters : \A j \in setters : j <= i])

\* all(), first() and stream(batch_size) of a query with a plan and a filter
RunLoad(op, plan, filt, batch_size) ==
    LET call == [NoLoad EXCEPT !.op = op, !.plan = plan, !.filt = filt,
                               !.batch_size = batch_size]
        rows == BaseRows(filt)
        returned == IF op = "first" /\ rows # <<>> THEN <<rows[1]>> ELSE rows
        size == IF op = "stream" THEN batch_size ELSE Len(returned)
        \* the batch that holds the i-th returned instance
        batch(i) == LET first == ((i - 1) \div size) * size + 1
                        last == IF first + size - 1 < Len(returned)
                                THEN first + size - 1 ELSE Len(returned)
                    IN SubSeq(returned, first, last)
        batches == IF returned = <<>> THEN 0
                   ELSE (Len(returned) + size - 1) \div size
        follow[k \in 0..batches] ==
            IF k = 0 THEN 0
            ELSE follow[k - 1] + ApplySql(batch((k - 1) * size + 1), plan)
        selects == IF op = "stream" THEN Len(returned) \div size + 1 ELSE 1
    IN IF Ambiguous(plan, filt) THEN [call EXCEPT !.raised = TRUE, !.sql = 1]
       ELSE [call EXCEPT
                !.sql = selects + follow[batches],
                !.result = [i \in 1..Len(returned) |->
                               [pk |-> returned[i],
                                rels |-> [rel \in Rels |->
                                    Populated(batch(i), returned[i], rel, plan)]]]]

Load(op, plan, filt, batch_size) ==
    /\ loaded.op = "none"
    /\ loaded' = RunLoad(op, plan, filt, batch_size)
    /\ UNCHANGED <<migVars, sessVars, batching, store, m2m, ups, fnCall>>

\* a query with a load plan of up to MaxPlan entries and no filter, or
\* filter(id=1), or filter(author_id=1)
LoadNext ==
    \E op \in {"all", "first", "stream"},
       plan \in UNION {[1..k -> [strategy : {"selectin", "joined", "noload"},
                                 rel : Rels]] : k \in 0..MaxPlan},
       filt \in {"none", "id", "author_id"} :
        \E batch_size \in IF op = "stream" THEN 1..MaxBatch ELSE {0} :
            Load(op, plan, filt, batch_size)

\* a session on a pool that holds up to MaxParents posts, each with an
\* author_id that is NULL or 1, the user 1 or no user, at most one comment,
\* junction rows to the tag 1, and author declared with or without
\* foreign_keys
LoadInit ==
    \E n \in 0..MaxParents, user \in BOOLEAN, explicit_fk \in BOOLEAN :
        \E fks \in [1..MaxParents -> 0..1], comment \in 0..n,
           link \in SUBSET (1..n) :
            /\ \A p \in 1..MaxParents : p > n => fks[p] = 0
            /\ MigStart(<<>>)
            /\ SessStart(EmptyTables, TRUE, "sqlite")
            /\ AuxStart(NoBatching,
                        [n |-> n, author_id |-> fks, user |-> user,
                         comment |-> comment, link |-> link,
                         explicit_fk |-> explicit_fk],
                        NoM2M, NoUpsert)

-----------------------------------------------------------------------------
(* ManyToManyCollection: the collection of one owner over its junction     *)
(* table.  An item is a target instance: the instances 2t - 1 and 2t hold  *)
(* the target row with primary key t.  junction[t] is the number of        *)
(* junction rows (owner, t); the table may or may not have a key over the  *)
(* pair, since its DDL is the application's.                               *)

\* getattr(item, target_pk_col)
ItemPk(item) == (item + 1) \div 2

\* item in self: list membership, by identity as Base defines no __eq__
Holds(collection, item) == \E i \in 1..Len(collection) : collection[i] = item

\* the call that is about to run, noted with the state it starts from
M2MCall(op, item) ==
    [m2m EXCEPT !.op = op, !.item = item,
                !.again = (m2m.op = op /\ m2m.item = item),
                !.prev_junction = m2m.junction,
                !.prev_collection = m2m.collection]

CollectionAddAlways(item) ==
    LET ignored == m2m.unique /\ m2m.junction[ItemPk(item)] >= 1
    IN /\ ignored \/ m2m.junction[ItemPk(item)] < MaxRows
       /\ Len(m2m.collection) < MaxItems
       /\ m2m' = [M2MCall("add", item) EXCEPT
                     !.junction[ItemPk(item)] = IF ignored THEN @ ELSE @ + 1,
                     !.collection = Append(@, item)]
       /\ UNCHANGED <<migVars, sessVars, batching, store, loaded, ups, fnCall>>

\* add(item): INSERT OR IGNORE / ON CONFLICT DO NOTHING skips the row only
\* when a key of the junction table rejects it; then the item is appended
\* unless the list holds it
CollectionAdd(item) ==
    LET ignored == m2m.unique /\ m2m.junction[ItemPk(item)] >= 1
    IN /\ ignored \/ m2m.junction[ItemPk(item)] < MaxRows
       /\ m2m' = [M2MCall("add", item) EXCEPT
                     !.junction[ItemPk(item)] = IF ignored THEN @ ELSE @ + 1,
                     !.collection = IF Holds(@, item) THEN @ ELSE Append(@, item)]
       /\ UNCHANGED <<migVars, sessVars, batching, store, loaded, ups, fnCall>>

\* remove(item): DELETE of the rows of the pair, then list.remove, whose
\* ValueError is swallowed
CollectionRemove(item) ==
    /\ m2m' = [M2MCall("remove", item) EXCEPT
                  !.junction[ItemPk(item)] = 0,
                  !.collection =
                      IF Holds(@, item)
                      THEN LET i == CHOOSE i \in 1..Len(@) :
                                       @[i] = item /\ \A j \in 1..(i - 1) : @[j] # item
                           IN SubSeq(@, 1, i - 1) \o SubSeq(@, i + 1, Len(@))
                      ELSE @]
    /\ UNCHANGED <<migVars, sessVars, batching, store, loaded, ups, fnCall>>

\* clear(): DELETE of every junction row of the owner, then list.clear
CollectionClear ==
    /\ m2m' = [M2MCall("clear", 0) EXCEPT
                  !.junction = [t \in TargetPks |-> 0],
                  !.collection = <<>>]
    /\ UNCHANGED <<migVars, sessVars, batching, store, loaded, ups, fnCall>>

CollectionsNext ==
    \/ \E item \in 1..MaxItems : CollectionAdd(item)
    \/ \E item \in 1..MaxItems : CollectionRemove(item)
    \/ CollectionClear

M2MNext ==
    \E item \in 1..MaxItems : CollectionAdd(item) \/ CollectionRemove(item)

\* the collection of a just inserted owner (empty, whatever the junction
\* table holds) or the one selectinload built from the junction rows
M2MInit ==
    \E unique \in BOOLEAN, junction \in [TargetPks -> 0..1], fresh \in BOOLEAN :
        /\ MigStart(<<>>)
        /\ SessStart(EmptyTables, TRUE, "sqlite")
        /\ AuxStart(NoBatching, NoStore,
                    [NoM2M EXCEPT
                        !.unique = unique,
                        !.junction = junction,
                        !.collection =
                            IF fresh THEN <<>>
                            ELSE SelectSeq([i \in 1..MaxItems |-> i],
                                           LAMBDA i : /\ junction[ItemPk(i)] >= 1
                                                      /\ \A j \in 1..MaxItems :
                                                            ItemPk(j) = ItemPk(i) => j <= i)],
                    NoUpsert)

-----------------------------------------------------------------------------
(* upsert() on users(id, email, name): id is the autoincrement primary     *)
(* key, email may carry a unique index, name is plain data.  The table is  *)
(* the sequence of its rows, row i having id i.                            *)

\* AsyncSession.upsert(x, conflict_target = t, update_fields, do_nothing)
UpsertUser(x, t, update_fields, do_nothing) ==
    LET table == ups.table
        \* insert_cols leaves the autoincrement primary key out, so the row
        \* proposed for insertion takes the next id whatever x.id holds
        proposed == [id |-> Len(table) + 1, email |-> x.email, name |-> x.name]
        \* ON CONFLICT (t): the rows the proposed row collides with on t
        hit == {i \in 1..Len(table) : t = "email" /\ table[i].email = x.email}
        \* a collision on a unique index that is not the conflict target, or
        \* a conflict target without a unique index, fails the statement
        fails == \/ t = "email" /\ ~ups.unique_email
                 \/ t = "id" /\ ups.unique_email
                    /\ \E i \in 1..Len(table) : table[i].email = x.email
        update_cols == IF do_nothing THEN {}
                       ELSE IF update_fields # {} THEN update_fields
                       ELSE {"email", "name"}
        written == IF hit = {} THEN Append(table, proposed)
                   ELSE [i \in 1..Len(table) |->
                            IF i \in hit
                            THEN [f \in {"id", "email", "name"} |->
                                     IF f \in update_cols THEN proposed[f]
                                     ELSE table[i][f]]
                            ELSE table[i]]
        \* the row read back: RETURNING * on PostgreSQL (no row when the
        \* insert was skipped); on SQLite a SELECT by the conflict columns
        \* that are among the inserted values, never after do_nothing
        back == IF dialect = "postgresql"
                THEN (IF hit = {} THEN {proposed}
                      ELSE IF do_nothing THEN {}
                      ELSE {written[i] : i \in hit})
                ELSE IF do_nothing \/ t = "id" THEN {}
                ELSE {written[i] : i \in {j \in 1..Len(written) :
                                             written[j].email = x.email}}
        noted == [ups EXCEPT !.op = "upsert", !.x_in = x, !.x = x, !.target = t,
                             !.update_fields = update_fields,
                             !.do_nothing = do_nothing,
                             !.again = (/\ ups.op = "upsert" /\ ~ups.raised
                                        /\ x = ups.x /\ t = ups.target
                                        /\ update_fields = ups.update_fields
                                        /\ do_nothing = ups.do_nothing),
                             !.raised = fails, !.prev_table = table]
    IN /\ hit = {} /\ ~fails => Len(table) < MaxUsers
       /\ ups' = IF fails THEN noted
                 ELSE [noted EXCEPT
                          !.table = written,
                          !.x = IF back = {} THEN x ELSE CHOOSE r \in back : TRUE]
       /\ UNCHANGED <<migVars, sessVars, batching, store, loaded, m2m, fnCall>>

UpsertNext ==
    \E x \in [id : 0..MaxUsers, email : 1..MaxVal, name : 1..MaxVal],
       t \in {"id", "email"}, update_fields \in {{}, {"name"}},
       do_nothing \in BOOLEAN :
        UpsertUser(x, t, update_fields, do_nothing)

\* an empty users table, with or without the unique index on email
UpsertInit ==
    \E dia \in {"sqlite", "postgresql"}, unique_email \in BOOLEAN :
        /\ MigStart(<<>>)
        /\ SessStart(EmptyTables, TRUE, dia)
        /\ AuxStart(NoBatching, NoStore, NoM2M,
                    [NoUpsert EXCEPT !.unique_email = unique_email])

-----------------------------------------------------------------------------
(* Operations: the operations a migration function collects and their      *)
(* reverses.  The schema is one table with the objects the operations make *)
(* on it: a column, an index and a foreign key constraint, and a view made *)
(* by execute("CREATE VIEW ...", reverse_sql = "DROP VIEW ...").           *)

\* Operation.reverse(): the drop of what the operation creates
ReverseOp(op) ==
    [kind |-> CASE op.kind = "create_table" -> "drop_table"
                [] op.kind = "add_column" -> "drop_column"
                [] op.kind = "create_index" -> "drop_index"
                [] op.kind = "create_foreign_key" -> "drop_constraint"
                [] op.kind = "execute" -> "execute_reverse",
     if_not_exists |-> FALSE]

GetReverseOperationsInOrder(ops) == [k \in 1..Len(ops) |-> ReverseOp(ops[k])]

\* Operations.get_reverse_operations: the reverses, last operation first
GetReverseOperations(ops) ==
    [k \in 1..Len(ops) |-> ReverseOp(ops[Len(ops) + 1 - k])]

\* the statement of one operation run by the database: ok is FALSE when the
\* database rejects it
ApplyOp(sch, op) ==
    LET ok(s) == [ok |-> TRUE, schema |-> s]
        no == [ok |-> FALSE, schema |-> sch]
        exists(present) == IF present
                           THEN (IF op.if_not_exists THEN ok(sch) ELSE no)
                           ELSE no
    IN CASE op.kind = "create_table" ->
                IF sch.table THEN exists(TRUE) ELSE ok([sch EXCEPT !.table = TRUE])
         [] op.kind = "add_column" ->
                IF sch.table /\ ~sch.column THEN ok([sch EXCEPT !.column = TRUE]) ELSE no
         [] op.kind = "create_index" ->
                IF ~sch.table THEN no
                ELSE IF sch.index THEN exists(TRUE)
                ELSE ok([sch EXCEPT !.index = TRUE])
         [] op.kind = "create_foreign_key" ->
                IF sch.table /\ ~sch.fk THEN ok([sch EXCEPT !.fk = TRUE]) ELSE no
         [] op.kind = "execute" ->
                IF ~sch.view THEN ok([sch EXCEPT !.view = TRUE]) ELSE no
         [] op.kind = "drop_table" ->
                IF sch.table
                THEN ok([sch EXCEPT !.table = FALSE, !.column = FALSE,
                                    !.index = FALSE, !.fk = FALSE])
                ELSE no
         [] op.kind = "drop_column" ->
                IF sch.column THEN ok([sch EXCEPT !.column = FALSE]) ELSE no
         [] op.kind = "drop_index" ->
                IF sch.index THEN ok([sch EXCEPT !.index = FALSE]) ELSE no
         [] op.kind = "drop_constraint" ->
                IF sch.fk THEN ok([sch EXCEPT !.fk = FALSE]) ELSE no
         [] op.kind = "execute_reverse" ->
                IF sch.view THEN ok([sch EXCEPT !.view = FALSE]) ELSE no

\* _apply_migration: the statements one after the other, each in effect at
\* once, then the row of the version table written or deleted
ApplyMigration(sch, versions, ops, direction) ==
    LET upto[k \in 0..Len(ops)] ==
            IF k = 0 THEN [ok |-> TRUE, schema |-> sch]
            ELSE IF upto[k - 1].ok THEN ApplyOp(upto[k - 1].schema, ops[k])
            ELSE upto[k - 1]
        r == upto[Len(ops)]
    IN [ok |-> r.ok, schema |-> r.schema,
        versions |-> IF ~r.ok THEN versions
                     ELSE IF direction = "upgrade" THEN Append(versions, "rev")
                     ELSE SelectSeq(versions, LAMBDA v : v # "rev")]

\* the upgrade of a migration on a schema, then the downgrade made of the
\* reverse operations
UpgradeThenDowngrade(before, ops) ==
    LET up == ApplyMigration(before, <<>>, ops, "upgrade")
        down == ApplyMigration(up.schema, up.versions,
                               GetReverseOperations(ops), "downgrade")
    IN /\ fnCall.fn = "none"
       /\ fnCall' = [fn |-> "upgrade_downgrade", before |-> before, ops |-> ops,
                     up_ok |-> up.ok, down_ok |-> up.ok /\ down.ok,
                     after |-> IF up.ok THEN down.schema ELSE up.schema,
                     versions |-> IF up.ok THEN down.versions ELSE up.versions]
       /\ UNCHANGED <<migVars, sessVars, batching, store, loaded, m2m, ups>>

\* a migration of up to MaxOps reversible operations on a schema in which
\* the column, the index and the constraint exist only with their table
ReverseNext ==
    /\ fnCall.fn = "none"
    /\ \E before \in [table : BOOLEAN, column : BOOLEAN, index : BOOLEAN,
                      fk : BOOLEAN, view : BOOLEAN],
          ops \in UNION {[1..k -> [kind : {"create_table", "add_column", "create_index",
                                            "create_foreign_key", "execute"},
                                   if_not_exists : BOOLEAN]] : k \in 1..MaxOps} :
           /\ (before.column \/ before.index \/ before.fk) => before.table
           /\ \A k \in 1..Len(ops) :
                 ops[k].if_not_exists => ops[k].kind \in {"create_table", "create_index"}
           /\ UpgradeThenDowngrade(before, ops)

\* ---------------------------------------------------------------------
\* update, delete and remove on an instance x of an entity without a
\* primary key (__primary_key__ is None, base.py:144).  The session holds
\* n new User instances in _pending_new, the keys of dels in
\* _pending_delete, and the users table holds the keys of rows.
\* ---------------------------------------------------------------------
KeylessOps == {"update", "delete", "remove"}

\* the keyless instance in _pending_delete
Keyless == 0

\* _flush_deletes over the queue: a DELETE per keyed entry until the keyless
\* one raises; the queue is cleared only when the loop ends
RECURSIVE FlushDeletesUntilKeyless(_, _, _, _)
FlushDeletesUntilKeyless(queue, j, rows, sql) ==
    IF j > Len(queue)
    THEN [rows |-> rows, sql |-> sql, raised |-> FALSE, pending_delete |-> <<>>]
    ELSE IF queue[j] = Keyless
    THEN [rows |-> rows, sql |-> sql, raised |-> TRUE, pending_delete |-> queue]
    ELSE FlushDeletesUntilKeyless(queue, j + 1, rows \ {queue[j]}, sql + 1)

\* the call op on x, whose attribute holds name, with value v for update
KeylessCall(op, name, v, n, dels, rows) ==
    LET before == [name |-> name, pending_new |-> n, pending_delete |-> dels,
                   rows |-> rows]
        queued == Append(dels, Keyless)
        top    == IF rows = {} THEN 0 ELSE CHOOSE p \in rows : \A r \in rows : r <= p
        \* commit: _flush_inserts first, one INSERT for the n new users
        inserted == IF n > 0 THEN rows \cup (top + 1)..(top + n) ELSE rows
        fl     == FlushDeletesUntilKeyless(queued, 1, inserted, IF n > 0 THEN 1 ELSE 0)
    IN  CASE op = "update" ->
               \* setattr runs before the primary key is looked at
               [fn |-> "keyless", op |-> op, before |-> before, raised |-> TRUE,
                sql |-> 0, name |-> v, pending_new |-> n,
                pending_delete |-> dels, rows |-> rows]
          [] op = "delete" ->
               [fn |-> "keyless", op |-> op, before |-> before, raised |-> FALSE,
                sql |-> 0, name |-> name, pending_new |-> n,
                pending_delete |-> queued, rows |-> rows]
          [] OTHER ->
               [fn |-> "keyless", op |-> op, before |-> before,
                raised |-> fl.raised, sql |-> fl.sql, name |-> name,
                pending_new |-> 0, pending_delete |-> fl.pending_delete,
                rows |-> fl.rows]

KeylessNext ==
    /\ fnCall.fn = "none"
    /\ \E op \in KeylessOps, name \in 1..MaxVal, v \in 1..MaxVal,
          n \in 0..MaxQueue, rows \in SUBSET (1..MaxRows) :
          \E dels \in {<<>>} \cup {<<p>> : p \in rows} :
             fnCall' = KeylessCall(op, name, v, n, dels, rows)
    /\ UNCHANGED <<migVars, sessVars, batching, store, loaded, m2m, ups>>


\* ---------------------------------------------------------------------
\* AutogenContext.diff: the operations that bring the database schema to
\* the model schema.  A table is absent, or has the column name of a type
\* class (0 = no such column) and possibly an index on it.
\* ---------------------------------------------------------------------
ModelTables == <<"users", "posts">>

DbTables == {"users", "posts", "legacy"}

TableSchemas ==
    {t \in [present : BOOLEAN, name : 0..MaxVal, index : BOOLEAN] :
        /\ ~t.present => t.name = 0
        /\ t.index => t.name # 0}

\* two types are compatible when they fall in the same equivalence class
TypesMatch(model_type, db_type) == model_type = db_type

\* the operations for a table present on both sides: new column, dropped
\* column, changed column, new index
ColumnChanges(table_name, model_table, db_table) ==
    (IF model_table.name # 0 /\ db_table.name = 0
     THEN <<[kind |-> "add_column", table |-> table_name]>> ELSE <<>>)
    \o (IF db_table.name # 0 /\ model_table.name = 0
        THEN <<[kind |-> "drop_column", table |-> table_name]>> ELSE <<>>)
    \o (IF /\ model_table.name # 0 /\ db_table.name # 0
           /\ ~TypesMatch(model_table.name, db_table.name)
        THEN <<[kind |-> "alter_column", table |-> table_name]>> ELSE <<>>)
    \o (IF model_table.index /\ ~db_table.index
        THEN <<[kind |-> "create_index", table |-> table_name]>> ELSE <<>>)

\* the operations of kind over the model tables from position i on
RECURSIVE DiffTables(_, _, _, _)
DiffTables(model_schema, db_schema, i, creating) ==
    IF i > Len(ModelTables) THEN <<>>
    ELSE LET table_name == ModelTables[i]
             here == IF ~model_schema[table_name].present THEN <<>>
                     ELSE IF ~db_schema[table_name].present
                     THEN IF creating
                          THEN <<[kind |-> "create_table", table |-> table_name]>>
                          ELSE <<>>
                     ELSE IF creating THEN <<>>
                     ELSE ColumnChanges(table_name, model_schema[table_name],
                                        db_schema[table_name])
         IN here \o DiffTables(model_schema, db_schema, i + 1, creating)

\* diff() that also drops the tables found only in the database
DiffDroppingTables(model_schema, db_schema) ==
    DiffTables(model_schema, db_schema, 1, TRUE)
    \o (IF db_schema["legacy"].present
        THEN <<[kind |-> "drop_table", table |-> "legacy"]>> ELSE <<>>)
    \o DiffTables(model_schema, db_schema, 1, FALSE)

Diff(model_schema, db_schema) ==
    DiffTables(model_schema, db_schema, 1, TRUE)
    \o DiffTables(model_schema, db_schema, 1, FALSE)

DiffNext ==
    /\ fnCall.fn = "none"
    /\ \E model_schema \in [{"users", "posts"} -> TableSchemas],
          db_schema \in [DbTables -> TableSchemas] :
          fnCall' = [fn |-> "diff", model_schema |-> model_schema,
                     db_schema |-> db_schema,
                     operations |-> Diff(model_schema, db_schema)]
    /\ UNCHANGED <<migVars, sessVars, batching, store, loaded, m2m, ups>>


\* ---------------------------------------------------------------------
\* Resolution of a relationship (not many-to-many) and the first query that
\* loads it.  registered: the target entity is in the model registry;
\* candidates: the number of foreign key columns, in declaration order,
\* that reference the other table; explicit: foreign_keys was given.
\* ---------------------------------------------------------------------
NoColumn == 0

\* the first column that references the other table, the loop breaks there
ResolveForeignKey(candidates) == IF candidates = 0 THEN NoColumn ELSE 1

\* RelationshipInfo.resolve: the target from the registry, and the foreign
\* key column only when there is a target and no explicit foreign_keys
Resolve(registered, candidates, explicit) ==
    [target_model |-> registered,
     local_fk_column |-> IF registered /\ ~explicit
                         THEN ResolveForeignKey(candidates) ELSE NoColumn]

\* query(owner).options(strategy(rel)).all() over n owner rows whose
\* foreign key values are set
LoadRelationship(registered, candidates, explicit, uselist, strategy, n) ==
    LET rel_info == Resolve(registered, candidates, explicit)
        usable == rel_info.target_model /\ rel_info.local_fk_column # NoColumn
        joins == strategy = "joined" /\ ~uselist /\ usable
    IN [fn |-> "load_relationship", registered |-> registered,
        candidates |-> candidates, explicit |-> explicit,
        uselist |-> uselist, strategy |-> strategy, n |-> n,
        target_model |-> rel_info.target_model,
        local_fk_column |-> rel_info.local_fk_column,
        raised |-> FALSE,
        populated |-> usable,
        sql |-> 1 + (IF usable /\ ~joins /\ n > 0 THEN 1 ELSE 0)]

ResolveNext ==
    /\ fnCall.fn = "none"
    /\ \E registered \in BOOLEAN, candidates \in 0..MaxFk, explicit \in BOOLEAN,
          uselist \in BOOLEAN, strategy \in {"selectin", "joined"},
          n \in 0..MaxParents :
          fnCall' = LoadRelationship(registered, candidates, explicit, uselist,
                                     strategy, n)
    /\ UNCHANGED <<migVars, sessVars, batching, store, loaded, m2m, ups>>


\* ---------------------------------------------------------------------
\* Q objects and the SQL built from them.  A filter is (col, op, value)
\* with the value a tuple of integers; SQL is a sequence of tokens, a
\* comparison token carrying the placeholders it prints (0 stands for ?).
\* ---------------------------------------------------------------------
QColumns == {"a", "b"}

\* the rows the emitted SQL is evaluated on
QRows == [QColumns -> 0..MaxVal]

\* a = 1; b > 1; a IN (0, 2); b IN ()
EqA == [col |-> "a", op |-> "eq", value |-> <<1>>]
GtB == [col |-> "b", op |-> "gt", value |-> <<1>>]
InA == [col |-> "a", op |-> "in", value |-> <<0, 2>>]
InNone == [col |-> "b", op |-> "in", value |-> <<>>]

\* the keyword arguments of one constructor
Kwargs == {<<EqA>>, <<GtB, InA>>, <<InNone>>}

Token(t, col, op, ph) == [t |-> t, col |-> col, op |-> op, ph |-> ph]

Word(t) == Token(t, "", "", <<>>)

\* _build_filter_sql that numbers the placeholders of every filter from 1
BuildFilterSqlFromOne(f, dia, param_offset) ==
    LET placeholder(offset) == IF dia = "postgresql" THEN offset + 1 ELSE 0
    IN IF f.op = "in" /\ f.value = <<>>
       THEN [sql |-> <<Word("1 = 0")>>, params |-> <<>>]
       ELSE [sql |-> <<Token("cmp", f.col, f.op,
                               [k \in 1..Len(f.value) |-> placeholder(k - 1)])>>,
             params |-> f.value]

\* _build_filter_sql: the condition of one filter, its placeholders numbered
\* from param_offset + 1
BuildFilterSql(f, dia, param_offset) ==
    LET placeholder(offset) == IF dia = "postgresql" THEN param_offset + offset + 1 ELSE 0
    IN IF f.op = "in" /\ f.value = <<>>
       THEN [sql |-> <<Word("1 = 0")>>, params |-> <<>>]
       ELSE [sql |-> <<Token("cmp", f.col, f.op,
                               [k \in 1..Len(f.value) |-> placeholder(k - 1)])>>,
             params |-> f.value]

\* Q(**kwargs), q1 & q2, q1 | q2, ~q
QNew(kwargs) == [filters |-> kwargs, children |-> <<>>, connector |-> "", negated |-> FALSE]

QAnd(q1, q2) == [filters |-> <<>>, children |-> <<q1, q2>>, connector |-> "AND",
                 negated |-> FALSE]

QOr(q1, q2) == [filters |-> <<>>, children |-> <<q1, q2>>, connector |-> "OR",
                negated |-> FALSE]

\* ~q that sets the flag whatever it was
QInvertOnce(q) == [q EXCEPT !.negated = TRUE]

QInvert(q) == [q EXCEPT !.negated = ~q.negated]

\* parts joined by the connector word
RECURSIVE Join(_, _)
Join(parts, connector) ==
    IF parts = <<>> THEN <<>>
    ELSE IF Len(parts) = 1 THEN parts[1]
    ELSE parts[1] \o <<Word(connector)>> \o Join(Tail(parts), connector)

\* the value v under the name x in F, evaluated once as an assignment to a
\* local does
Bind(v, F(_)) == CHOOSE y \in {F(x) : x \in {v}} : TRUE

\* parts.append(sql); params.extend(p) unless the SQL is empty
Collect(acc, r) ==
    IF r.sql # <<>>
    THEN [parts |-> Append(acc.parts, r.sql), params |-> acc.params \o r.params]
    ELSE acc

\* the filters from position i on, each numbered after the parameters
\* collected so far
RECURSIVE FilterParts(_, _, _, _, _)
FilterParts(filters, i, dia, param_offset, acc) ==
    IF i > Len(filters) THEN acc
    ELSE Bind(BuildFilterSql(filters[i], dia, param_offset + Len(acc.params)),
              LAMBDA r : Bind([parts |-> Append(acc.parts, r.sql),
                               params |-> acc.params \o r.params],
              LAMBDA next : FilterParts(filters, i + 1, dia, param_offset, next)))

RECURSIVE ToSql(_, _, _)

\* the loop of Q.to_sql over the children from position i on, each numbered
\* after the parameters collected so far; a child without SQL is skipped
RECURSIVE ChildParts(_, _, _, _, _)
ChildParts(children, i, dia, param_offset, acc) ==
    IF i > Len(children) THEN acc
    ELSE Bind(ToSql(children[i], dia, param_offset + Len(acc.params)),
              LAMBDA r : Bind(Collect(acc, r),
              LAMBDA next : ChildParts(children, i + 1, dia, param_offset, next)))

\* the joined parts of Q.to_sql, before NOT: the children if there are any,
\* else the filters, in parentheses when more than one
QBody(q, kids, own) ==
    IF q.children # <<>>
    THEN IF kids.parts = <<>> THEN [sql |-> <<>>, params |-> <<>>]
         ELSE [sql |-> <<Word("(")>> \o Join(kids.parts, q.connector) \o <<Word(")")>>,
               params |-> kids.params]
    ELSE IF q.filters # <<>>
    THEN [sql |-> IF Len(own.parts) > 1
                  THEN <<Word("(")>> \o Join(own.parts, "AND") \o <<Word(")")>>
                  ELSE Join(own.parts, "AND"),
          params |-> own.params]
    ELSE [sql |-> <<>>, params |-> <<>>]

\* Q.to_sql(dialect, param_offset)
ToSql(q, dia, param_offset) ==
    LET none == [parts |-> <<>>, params |-> <<>>]
    IN Bind(ChildParts(q.children, 1, dia, param_offset, none),
       LAMBDA kids : Bind(FilterParts(q.filters, 1, dia, param_offset, none),
       LAMBDA own : Bind(QBody(q, kids, own),
       LAMBDA body : IF body.sql # <<>> /\ q.negated
                     THEN [body EXCEPT !.sql = <<Word("NOT")>> \o body.sql]
                     ELSE body)))

\* the Q expressions as the caller writes them, to depth d
Negate(e) == [op |-> "not", kwargs |-> <<>>, args |-> <<e>>]

RECURSIVE QExprs(_)
QExprs(d) ==
    IF d = 0 THEN {[op |-> "q", kwargs |-> k, args |-> <<>>] : k \in Kwargs}
    ELSE LET sub == QExprs(d - 1)
             leaves == QExprs(0)
             all == sub \cup {[op |-> o, kwargs |-> <<>>, args |-> <<e1, e2>>] :
                                o \in {"and", "or"}, e1 \in sub, e2 \in leaves}
                        \cup {[op |-> o, kwargs |-> <<>>, args |-> <<e1, e2>>] :
                                o \in {"and", "or"}, e1 \in leaves, e2 \in sub}
         IN all \cup {Negate(e) : e \in all}

\* the Q object the expression evaluates to
RECURSIVE BuildQ(_)
BuildQ(e) ==
    CASE e.op = "q"   -> QNew(e.kwargs)
      [] e.op = "not" -> QInvert(BuildQ(e.args[1]))
      [] e.op = "and" -> QAnd(BuildQ(e.args[1]), BuildQ(e.args[2]))
      [] OTHER        -> QOr(BuildQ(e.args[1]), BuildQ(e.args[2]))

\* the fragment of a Q expression after offset other parameters
QToSql(e, dia, offset) ==
    /\ fnCall.fn = "none"
    /\ fnCall' = Bind(BuildQ(e), LAMBDA q : Bind(ToSql(q, dia, offset), LAMBDA r :
                    [fn |-> "to_sql", expr |-> e, dialect |-> dia,
                     param_offset |-> offset, sql |-> r.sql, params |-> r.params]))
    /\ UNCHANGED <<migVars, sessVars, batching, store, loaded, m2m, ups>>

\* the WHERE parts of the Q objects from position i on, then of the keyword
\* filters, numbered after the parameters collected so far
RECURSIVE ConditionParts(_, _, _, _, _)
ConditionParts(conditions, i, dia, param_offset, acc) ==
    IF i > Len(conditions) THEN acc
    ELSE Bind(BuildQ(conditions[i]),
              LAMBDA q : Bind(ToSql(q, dia, param_offset + Len(acc.params)),
              LAMBDA r : Bind(Collect(acc, r),
              LAMBDA next : ConditionParts(conditions, i + 1, dia, param_offset, next))))

\* " WHERE " and the parts joined by AND, after param_offset parameters;
\* soft is the parameterless soft delete condition, if any
WhereSql(soft, conditions, filters, dia, param_offset) ==
    Bind(ConditionParts(conditions, 1, dia, param_offset,
                        [parts |-> soft, params |-> <<>>]),
    LAMBDA qs : Bind(FilterParts(filters, 1, dia, param_offset, qs),
    LAMBDA all : IF all.parts = <<>> THEN [sql |-> <<>>, params |-> <<>>]
                 ELSE [sql |-> <<Word("WHERE")>> \o Join(all.parts, "AND"),
                       params |-> all.params]))

\* Query._build_select_sql: WHERE, then HAVING numbered after the WHERE
\* parameters
SelectSql(soft, conditions, filters, having, dia) ==
    Bind(WhereSql(soft, conditions, filters, dia, 0),
    LAMBDA where : Bind(FilterParts(having, 1, dia, Len(where.params),
                                    [parts |-> <<>>, params |-> <<>>]),
    LAMBDA hav : IF having = <<>> THEN where
                 ELSE [sql |-> where.sql \o <<Word("HAVING")>> \o Join(hav.parts, "AND"),
                       params |-> where.params \o hav.params]))

\* AsyncSession.bulk_update: SET col = $k for each value, then WHERE
\* numbered after the SET parameters
BulkUpdateSql(values, conditions, filters, dia) ==
    LET set == [k \in 1..Len(values) |->
                  Token("set", "a", "=", <<IF dia = "postgresql" THEN k ELSE 0>>)]
    IN Bind(WhereSql(<<>>, conditions, filters, dia, Len(values)),
       LAMBDA where : [sql |-> set \o where.sql, params |-> values \o where.params])

\* a statement built for the session's dialect
BuildStatement(kind, values, soft, conditions, filters, having, dia) ==
    /\ fnCall' = Bind(IF kind = "select"
                      THEN SelectSql(soft, conditions, filters, having, dia)
                      ELSE BulkUpdateSql(values, conditions, filters, dia),
                 LAMBDA r : [fn |-> "statement", kind |-> kind, dialect |-> dia,
                             values |-> values, conditions |-> conditions,
                             filters |-> filters, having |-> having,
                             sql |-> r.sql, params |-> r.params])
    /\ UNCHANGED <<migVars, sessVars, batching, store, loaded, m2m, ups>>

QNext ==
    /\ fnCall.fn = "none"
    /\ \/ \E e \in QExprs(MaxDepth), dia \in {"sqlite", "postgresql"}, offset \in 0..MaxVal :
             QToSql(e, dia, offset)
       \/ \E kind \in {"select", "bulk_update"}, dia \in {"sqlite", "postgresql"},
             values \in {<<>>, <<1>>, <<1, 2>>},
             soft \in {<<>>, <<<<Word("deleted_at IS NULL")>>>>},
             conditions \in {<<>>} \cup {<<e>> : e \in QExprs(1)}
                              \cup {<<e1, e2>> : e1 \in QExprs(1), e2 \in QExprs(0)},
             filters \in {<<>>, <<EqA>>, <<InNone, InA>>},
             having \in {<<>>, <<GtB>>} :
             /\ kind = "select" => values = <<>>
             /\ kind = "bulk_update" => values # <<>> /\ having = <<>> /\ soft = <<>>
             /\ BuildStatement(kind, values, soft, conditions, filters, having, dia)


\* ---------------------------------------------------------------------
\* _load_selectin_m2m over the parents with the keys 1..n: the junction
\* table is a sequence of (parent, target) rows, targets the keys of the
\* rows of the target table.  A value is the list set on the instance and
\* whether it was wrapped in a ManyToManyCollection bound to the session.
\* ---------------------------------------------------------------------
\* Base._set_relationship(name, value, session)
SetRelationship(value, session) == [items |-> value, bound |-> session]

LoadSelectinM2M(n, junction, targets) ==
    LET parent_ids == 1..n
        junction_rows == SelectSeq(junction, LAMBDA row : row[1] \in parent_ids)
        target_ids_needed == {junction_rows[k][2] : k \in 1..Len(junction_rows)}
        targets_by_id == target_ids_needed \cap targets
        target_ids(p) == LET mine == SelectSeq(junction_rows, LAMBDA row : row[1] = p)
                         IN [k \in 1..Len(mine) |-> mine[k][2]]
    IN IF target_ids_needed = {}
       THEN [p \in 1..n |-> SetRelationship(<<>>, FALSE)]
       ELSE [p \in 1..n |->
               SetRelationship(SelectSeq(target_ids(p), LAMBDA tid : tid \in targets_by_id),
                               TRUE)]

LoadM2MNext ==
    /\ fnCall.fn = "none"
    /\ \E n \in 1..MaxParents, targets \in SUBSET (1..MaxRows) :
         \E junction \in UNION {[1..k -> (1..(MaxParents + 1)) \X targets] : k \in 0..MaxRows} :
            fnCall' = [fn |-> "load_selectin_m2m", n |-> n, junction |-> junction,
                       targets |-> targets,
                       values |-> LoadSelectinM2M(n, junction, targets)]
    /\ UNCHANGED <<migVars, sessVars, batching, store, loaded, m2m, ups>>


\* ---------------------------------------------------------------------
\* One Query object kept by the caller and run several times: built is
\* the query as session.query(...) and its builder calls left it, q the
\* object as the terminal operations so far have left it.  rows are the
\* rows of the last terminal operation, fresh those of the same operation
\* on a query built anew.
\* ---------------------------------------------------------------------
\* session.query(model) and the builder calls
HeldQuery(q) ==
    /\ fnCall.fn = "none"
    /\ fnCall' = [fn |-> "query", built |-> q, q |-> q, calls |-> <<>>,
                  rows |-> <<>>, fresh |-> <<>>]
    /\ UNCHANGED <<migVars, sessVars, batching, store, loaded, m2m, ups>>

\* a terminal operation on the held object: after is the object as the
\* operation leaves it
HeldRun(name, after, rows, fresh) ==
    /\ Len(objs) + Len(rows) <= MaxObjs
    /\ LET st == Hydrate(State, after.model, rows)
       IN /\ db' = st.db
          /\ nextPk' = st.nextPk
          /\ objs' = st.objs
          /\ identity_map' = st.identity_map
          /\ pending_new' = st.pending_new
          /\ pending_dirty' = st.pending_dirty
          /\ pending_delete' = st.pending_delete
    /\ lastOp' = [QueryOp(name, after) EXCEPT !.result = Fresh(rows), !.sql = 1,
                                              !.rows = {rows[i] : i \in 1..Len(rows)}]
    /\ fnCall' = [fnCall EXCEPT !.q = after, !.calls = Append(@, name),
                                !.rows = rows, !.fresh = fresh]
    /\ UNCHANGED <<autoflush, dialect, scope, migVars, batching, store, loaded, m2m, ups>>

\* Query.first: self._limit_val = 1, then _execute
HeldFirst ==
    /\ fnCall.fn = "query" /\ Len(fnCall.calls) < MaxOps
    /\ HeldRun("first", [fnCall.q EXCEPT !.limit_val = 1],
               FirstRows(fnCall.q, db[fnCall.q.model]),
               FirstRows(fnCall.built, db[fnCall.built.model]))

\* Query.all
HeldAll ==
    /\ fnCall.fn = "query" /\ Len(fnCall.calls) < MaxOps
    /\ HeldRun("all", fnCall.q, BuildSelectSql(fnCall.q, db[fnCall.q.model]),
               BuildSelectSql(fnCall.built, db[fnCall.built.model]))

\* Query.stream(batch_size)
HeldStream(batch_size) ==
    /\ fnCall.fn = "query" /\ Len(fnCall.calls) < MaxOps
    /\ HeldRun("stream", fnCall.q,
               Windows(BuildSelectSql(BatchQuery(fnCall.q), db[fnCall.q.model]),
                       batch_size, 0, 0).rows,
               Windows(BuildSelectSql(BatchQuery(fnCall.built), db[fnCall.built.model]),
                       batch_size, 0, 0).rows)

HeldNext ==
    \/ \E q \in SoftQueries : HeldQuery(q)
    \/ HeldFirst
    \/ HeldAll
    \/ \E batch_size \in 1..MaxBatch : HeldStream(batch_size)


\* ---------------------------------------------------------------------
\* commit() of one task, step by step: _flush_inserts groups the queue,
\* then awaits one INSERT round trip per class; while it is suspended
\* there, another task of the event loop may call add() on the session.
\* fnCall holds the suspended coroutine's locals: by_class, the queue as
\* it was grouped, and classes, the classes whose batch is still to come.
\* ---------------------------------------------------------------------
\* commit -> _flush_inserts up to its first await
FlushBegin ==
    /\ fnCall.fn = "none"
    /\ pending_new # <<>>
    /\ HasRoom(State)
    /\ fnCall' = [fn |-> "flush_inserts", by_class |-> pending_new,
                  classes |-> ByClass(pending_new, objs, {})]
    /\ UNCHANGED <<migVars, sessVars, batching, store, loaded, m2m, ups>>

\* the awaited _batch_insert returns; after the last one
\* self._pending_new.clear() runs and commit returns
FlushResume ==
    /\ fnCall.fn = "flush_inserts"
    /\ LET cls == Head(fnCall.classes)
           last == Tail(fnCall.classes) = <<>>
           written == InsertBatch(State, cls, InstancesOf(fnCall.by_class, objs, cls))
           st == IF last THEN [written EXCEPT !.pending_new = <<>>] ELSE written
       IN /\ db' = st.db
          /\ nextPk' = st.nextPk
          /\ objs' = st.objs
          /\ identity_map' = st.identity_map
          /\ pending_new' = st.pending_new
          /\ pending_dirty' = st.pending_dirty
          /\ pending_delete' = st.pending_delete
          /\ lastOp' = [NoOp EXCEPT !.op = IF last THEN "commit" ELSE "batch_insert"]
          /\ fnCall' = IF last THEN NoCall ELSE [fnCall EXCEPT !.classes = Tail(@)]
    /\ UNCHANGED <<autoflush, dialect, scope, migVars, batching, store, loaded, m2m, ups>>

TasksNext ==
    \/ \E cls \in Classes : Add(cls)
    \/ FlushBegin
    \/ FlushResume


SpecMigration == MigInit /\ [][MigNext]_vars

SpecSession == SessInit /\ [][SessNext]_vars

SpecIdentity == IdentityInit /\ [][IdentityNext]_vars

SpecGet == GetInit /\ [][GetNext]_vars

SpecInsert == InsertInit /\ [][InsertNext]_vars

SpecQuery == QueryInit /\ [][QueryNext]_vars

SpecBatch == BatchInit /\ [][BatchInsert]_vars

SpecLoad == LoadInit /\ [][LoadNext]_vars

SpecM2M == M2MInit /\ [][M2MNext]_vars

SpecUpsert == UpsertInit /\ [][UpsertNext]_vars

SpecReverse == IdentityInit /\ [][ReverseNext]_vars

SpecKeyless == IdentityInit /\ [][KeylessNext]_vars

SpecDiff == IdentityInit /\ [][DiffNext]_vars

SpecResolve == IdentityInit /\ [][ResolveNext]_vars

SpecRemove == GetInit /\ [][RemoveNext]_vars

SpecQ == IdentityInit /\ [][QNext]_vars

SpecLoadM2M == IdentityInit /\ [][LoadM2MNext]_vars

SpecHeld == QueryInit /\ [][HeldNext]_vars

SpecTasks == SessInit /\ [][TasksNext]_vars

SpecCollections == M2MInit /\ [][CollectionsNext]_vars

-----------------------------------------------------------------------------
(* Properties of the migration runner *)

Last(s) == s[Len(s)]

Downgrades == {"downgrade_n", "downgrade_rev"}

\* the revision no script names as its down_revision
ChainHead(ss) ==
    CHOOSE r \in Revisions(ss) : \A i \in 1..Len(ss) : ss[i].down_revision # r

\* some script names a down_revision that has no script
BrokenChain(ss) ==
    \E i \in 1..Len(ss) :
        ss[i].down_revision # NoRev /\ ss[i].down_revision \notin Revisions(ss)

RECURSIVE DependsOn(_, _, _)
\* revision s has revision r among its ancestors
DependsOn(ss, s, r) ==
    /\ s \in Revisions(ss)
    /\ LET parent == ByRevision(ss, s).down_revision
       IN parent # NoRev /\ (parent = r \/ DependsOn(ss, parent, r))

\* C1: after calls that all complete without error the version table holds at
\* most one row; after a successful upgrade to r it holds exactly r; after
\* every applied migration has been downgraded it is empty.
C1_VersionTableSingleRow ==
    /\ ~hadError => Len(version_table) <= 1
    /\ (lastCall.op = "upgrade" /\ ~lastCall.raised /\ lastCall.ran # <<>>)
          => version_table = <<Last(lastCall.ran)>>
    /\ (lastCall.op \in Downgrades /\ ~hadError /\ \A r \in AllRevs : schema[r] = 0)
          => version_table = <<>>

\* C6: an upgrade that raises while applying a migration does not record that
\* migration, runs and records no later migration of the plan, and keeps the
\* revisions recorded before the failure.
C6_FailedUpgradeKeepsVersions ==
    [][(lastCall'.op = "upgrade" /\ lastCall'.raised /\ migVars' # migVars) =>
          /\ version_table' = version_table \o lastCall'.ran
          /\ lastCall'.failed \notin Range(version_table')
          /\ \A r \in AllRevs \ (Range(lastCall'.ran) \cup {lastCall'.failed}) :
                schema'[r] = schema[r]]_vars

\* an upgrade raised at its second migration, with a third one still pending
C6_Witness ==
    /\ lastCall.op = "upgrade" /\ lastCall.raised
    /\ lastCall.failed # NoRev
    /\ Len(lastCall.ran) = 1
    /\ version_table = lastCall.ran
    /\ schema[lastCall.failed] > 0
    /\ \E r \in Revisions(scripts) \ (Range(version_table) \cup {lastCall.failed}) :
          schema[r] = 0

\* C7: after upgrade("head") completes, get_current_revision() returns the
\* head of the chain.
C7_CurrentRevisionIsHead ==
    (lastCall.op = "upgrade" /\ lastCall.target = HEAD /\ ~lastCall.raised)
        => GetCurrentRevision(version_table) = ChainHead(scripts)

\* C8: downgrade("-N") rolls back exactly the N most recently applied
\* migrations (all when fewer are applied), most recent first, removes exactly
\* their revisions, and rolls back no migration that a migration still
\* recorded depends on.
C8_DowngradeNMostRecent ==
    [][(lastCall'.op = "downgrade_n" /\ ~lastCall'.raised /\ migVars' # migVars) =>
          LET keep == Len(version_table) - Min(lastCall'.n, Len(version_table))
          IN /\ lastCall'.ran = Reverse(SubSeq(version_table, keep + 1, Len(version_table)))
             /\ version_table' = SubSeq(version_table, 1, keep)
             /\ \A r \in Range(lastCall'.ran), s \in Range(version_table') :
                   ~DependsOn(scripts, s, r)]_vars

\* C9: with a script whose down_revision has no script, an upgrade or downgrade
\* that loads the scripts raises, runs no migration and changes neither the
\* schema nor the version table.
C9_BrokenChainFailsLoad ==
    [][(/\ BrokenChain(scripts)
        /\ migVars' # migVars
        /\ \/ lastCall'.op = "upgrade"
           \/ lastCall'.op \in Downgrades /\ version_table # <<>>) =>
          /\ lastCall'.raised
          /\ lastCall'.ran = <<>>
          /\ version_table' = version_table
          /\ schema' = schema]_vars

-----------------------------------------------------------------------------
(* Properties of the session *)

\* the instance has a row in its table
InDb(o) == objs[o].pk # NoPk /\ db[objs[o].cls][objs[o].pk] # "absent"

\* the query a recorded call ran
QueryOf(op) ==
    [Query(op.model, op.id) EXCEPT !.include_deleted = op.include_deleted,
                                   !.only_deleted = op.only_deleted]

TerminalOps == {"all", "first", "count", "exists", "delete_rows", "update_rows", "stream"}

\* C2: the session holds at most one instance per class and primary key: no
\* two of the instances it has returned (from get, insert or a query) stand
\* for the same row.
C2_OneInstancePerRow ==
    \A i, j \in Instances :
        (i # j /\ objs[i].cls = objs[j].cls /\ objs[i].pk # NoPk)
            => objs[i].pk # objs[j].pk

\* C3 as written: the second of two consecutive get(E, id) calls returns what
\* the first returned, and the two calls issue at most one SQL statement.
C3_GetTwiceOneStatement ==
    (lastOp.op = "get" /\ lastOp.calls = 2)
        => /\ lastOp.result = lastOp.prev_result
           /\ lastOp.prev_sql + lastOp.sql <= 1

\* C3: when the first of two consecutive get(E, id) calls returns an
\* instance, the second returns the same instance without any SQL, so the
\* two issue at most one statement; when the first returns None the second
\* returns None too and issues as many statements as the first did.
C3_GetTwiceCachedWhenFound ==
    (lastOp.op = "get" /\ lastOp.calls = 2)
        => /\ lastOp.result = lastOp.prev_result
           /\ lastOp.prev_result # <<>> => lastOp.sql = 0 /\ lastOp.prev_sql <= 1
           /\ lastOp.prev_result = <<>> => lastOp.sql = lastOp.prev_sql

\* the first get fetched the row with one statement, the second found it in
\* the identity map
C3_Witness ==
    /\ lastOp.op = "get" /\ lastOp.calls = 2
    /\ lastOp.prev_result # <<>> /\ lastOp.prev_sql = 1
    /\ lastOp.result = lastOp.prev_result /\ lastOp.sql = 0

\* C4: a commit() whose flush raises leaves no pending insert or delete
\* applied: the tables are as they were before the call.
C4_CommitAtomic ==
    [][(lastOp'.op = "commit" /\ lastOp'.raised) => db' = db]_vars

\* C5: when a begin() scope ends cleanly every instance added in it has been
\* inserted; when its body raises the pending queues are empty and no
\* instance added in it has a row.
C5_BeginScope ==
    lastOp.op = "begin_exit"
        => /\ ~lastOp.raised => \A o \in lastOp.added : objs[o].pk # NoPk
           /\ lastOp.body_raised =>
                 /\ pending_new = <<>> /\ pending_dirty = <<>> /\ pending_delete = <<>>
                 /\ \A o \in lastOp.added : ~InDb(o)

\* C10: on a soft delete class every terminal operation acts on exactly the
\* rows its mode selects (default: not deleted, with_deleted: all,
\* only_deleted: deleted); first() on the first of them.
C10_TerminalOpsFollowMode ==
    [][(lastOp'.op \in TerminalOps /\ SoftDeleteClass(lastOp'.model))
        => LET q == QueryOf(lastOp')
           IN lastOp'.rows =
                IF lastOp'.op = "first"
                THEN {FirstRows(q, db[q.model])[i] : i \in 1..Len(FirstRows(q, db[q.model]))}
                ELSE BuildWhereClause(q, db[q.model])]_vars

\* the rows all() returns for the query
RowsOf(q) == Range(BuildSelectSql(q, db[q.model]))

\* C11: for a soft delete class, any table and any filter, the rows of the
\* default query and of only_deleted() are disjoint and their union is the
\* rows of with_deleted().
C11_SoftDeleteModesPartition ==
    \A cls \in Classes, filt \in {NoPk} \cup PKs :
        SoftDeleteClass(cls) =>
            /\ RowsOf(QueryFor(cls, "default", filt))
                    \cap RowsOf(QueryFor(cls, "only_deleted", filt)) = {}
            /\ RowsOf(QueryFor(cls, "default", filt))
                    \cup RowsOf(QueryFor(cls, "only_deleted", filt))
                 = RowsOf(QueryFor(cls, "with_deleted", filt))

\* only_deleted().all() has returned rows of a table that also holds a row
\* that is not deleted
C11_Witness ==
    /\ lastOp.op = "all" /\ lastOp.only_deleted /\ lastOp.rows # {}
    /\ RowsOf(QueryFor(lastOp.model, "default", NoPk)) # {}

\* C12: for a soft delete class, get(E, id) on a row that is soft-deleted
\* returns None without include_deleted and the instance of that row with
\* include_deleted, whether the identity map or SQL answers.
C12_GetObeysSoftDelete ==
    (/\ lastOp.op = "get"
     /\ SoftDeleteClass(lastOp.model)
     /\ db[lastOp.model][lastOp.id] = "deleted")
        => IF lastOp.include_deleted
           THEN lastOp.result # <<>> /\ objs[lastOp.result[1]].pk = lastOp.id
           ELSE lastOp.result = <<>>

\* C13: when the task is cancelled at a round trip inside a begin(),
\* transaction() or session_context() scope, rollback() runs and the
\* pending queues are empty when the scope exits.
C13_CancelRollsBack ==
    (lastOp.op = "begin_exit" /\ lastOp.cancelled)
        => pending_new = <<>> /\ pending_dirty = <<>> /\ pending_delete = <<>>

\* C14: rollback() empties the three pending queues, issues no SQL and
\* leaves the identity map, the instances and the tables as they were; and
\* no call gives a row to an instance that is not in pending_new, so what a
\* rollback discarded is not inserted by a later commit.
C14_RollbackClearsQueues ==
    [][/\ lastOp'.op = "rollback" =>
            /\ pending_new' = <<>> /\ pending_dirty' = <<>> /\ pending_delete' = <<>>
            /\ lastOp'.sql = 0
            /\ identity_map' = identity_map /\ db' = db /\ objs' = objs
       /\ \A o \in Instances :
            (objs[o].pk = NoPk /\ o \notin Range(pending_new))
                => objs'[o].pk = NoPk]_vars

\* rollback() has discarded a pending instance in a session whose identity
\* map and tables hold an inserted one
C14_Witness ==
    /\ lastOp.op = "rollback"
    /\ \E o \in Instances : objs[o].pk = NoPk
    /\ \E o \in Instances : InDb(o) /\ identity_map[objs[o].cls][objs[o].pk] = o

\* the instance holds the key k, the row k carries its values and the
\* identity map has the instance under k, after the step
HoldsRow(o, k) ==
    /\ objs'[o].pk = k
    /\ db'[objs'[o].cls][k] = RowOf(objs'[o])
    /\ identity_map'[objs'[o].cls][k] = o

BatchesPartition ==
    LET max_params == MaxParams(dialect)
        batch_size == max_params \div batching.columns
        B == batching.batches
    IN /\ ~batching.raised
       /\ Len(B) >= 1
       /\ \A k \in 1..Len(B) :
             /\ B[k].start = (k - 1) * batch_size
             /\ B[k].params <= max_params
             /\ B[k].size \in 1..batch_size
             /\ k < Len(B) => B[k].size = batch_size
       /\ \A i \in 0..(batching.instances - 1) :
             Cardinality({k \in 1..Len(B) :
                             B[k].start <= i /\ i < B[k].start + B[k].size}) = 1

\* C16 as stated: for every n >= 1 and every c >= 1 the flush splits the
\* instances into consecutive batches of floor(900/c) rows on SQLite
\* (floor(30000/c) on PostgreSQL), each INSERT within 900 (30000)
\* parameters, every instance inserted by exactly one batch.
C16_BatchesPartition ==
    (batching.done /\ batching.columns >= 1) => BatchesPartition

\* C16 amended: the same for 1 <= c <= 900 on SQLite (1 <= c <= 30000 on
\* PostgreSQL); with more columns than the budget the call raises and
\* inserts nothing.
C16_BatchesPartitionWithinBudget ==
    /\ (batching.done /\ batching.columns \in 1..MaxParams(dialect))
          => BatchesPartition
    /\ (batching.done /\ batching.columns > MaxParams(dialect))
          => batching.raised /\ batching.batches = <<>>

\* a call that needed several batches, the last one shorter
C16_Witness ==
    /\ batching.done
    /\ batching.columns >= 2
    /\ Len(batching.batches) >= 2
    /\ batching.batches[Len(batching.batches)].size
          < batching.batches[1].size

\* the follow-up statements the claim allots to a plan: one per selectin
\* entry, two when it is many-to-many, none per joined entry
PlanStatements(plan, fallback) ==
    LET upto[i \in 0..Len(plan)] ==
            IF i = 0 THEN 0
            ELSE upto[i - 1]
                 + (IF plan[i].strategy = "selectin"
                       \/ (fallback /\ plan[i].strategy = "joined"
                           /\ plan[i].rel # "author")
                    THEN (IF plan[i].rel = "tags" THEN 2 ELSE 1)
                    ELSE 0)
    IN upto[Len(plan)]

\* C17 as stated: for any number of parents and any load plan a terminal
\* operation issues exactly 1 + K' statements, K' adding 1 per selectin
\* entry (2 when many-to-many) and 0 per joined entry.
C17_ExactlyOnePlusK ==
    (loaded.op # "none" /\ ~loaded.raised)
        => loaded.sql = 1 + PlanStatements(loaded.plan, FALSE)

\* C17 amended: all() and first() issue at most 1 + K'' statements, K''
\* adding 1 per selectin entry and per joined entry of a to-many
\* relationship (2 when many-to-many) and 0 per joined many-to-one and per
\* noload entry, whatever the number of parents; exactly 1 when no parent
\* comes back; stream() issues at most that many per batch it fetches.
C17_AtMostOnePlusK ==
    LET bound == 1 + PlanStatements(loaded.plan, TRUE)
        N == Len(loaded.result)
    IN /\ (loaded.op \in {"all", "first"} /\ ~loaded.raised)
            => /\ loaded.sql <= bound
               /\ N = 0 => loaded.sql = 1
       /\ (loaded.op = "stream" /\ ~loaded.raised)
            => loaded.sql <= (N \div loaded.batch_size + 1) * bound

\* all() of two parents with a many-to-many selectin entry that took its
\* two follow-up statements
C17_Witness ==
    /\ loaded.op = "all"
    /\ Len(loaded.result) = MaxParents
    /\ loaded.plan = <<[strategy |-> "selectin", rel |-> "tags"]>>
    /\ loaded.sql = 3

\* C18: every instance all(), first() or stream() hands back has every
\* relationship named in the load plan populated.
C18_PlannedRelationshipsPopulated ==
    (loaded.op \in {"all", "first", "stream"} /\ ~loaded.raised)
        => \A i \in 1..Len(loaded.result), e \in 1..Len(loaded.plan) :
               loaded.result[i].rels[loaded.plan[e].rel] # Unloaded

\* C19: joinedload gives the same parents and the same relationship value
\* per parent as selectinload, and never a stub instance for a NULL or
\* unmatched foreign key.
C19_JoinedEqualsSelectin ==
    \A rel \in Rels :
        (loaded.op # "none"
         /\ loaded.plan = <<[strategy |-> "joined", rel |-> rel]>>)
            => LET selectin == RunLoad(loaded.op,
                                       <<[strategy |-> "selectin", rel |-> rel]>>,
                                       loaded.filt, loaded.batch_size)
               IN /\ loaded.raised = selectin.raised
                  /\ loaded.result = selectin.result
                  /\ \A i \in 1..Len(loaded.result) :
                        loaded.result[i].rels[rel] # <<0>>

\* after add(r); add(r) one junction row and one occurrence of r; after
\* remove(r) of an r with no junction row and not in the collection, the
\* junction table and the collection as before
AddTwiceRemoveAbsent ==
    LET t == ItemPk(m2m.item)
    IN /\ (m2m.op = "add" /\ m2m.again)
            => /\ m2m.junction[t] = 1
               /\ Cardinality({i \in 1..Len(m2m.collection) :
                                  m2m.collection[i] = m2m.item}) = 1
       /\ (m2m.op = "remove" /\ m2m.prev_junction[t] = 0
           /\ ~Holds(m2m.prev_collection, m2m.item))
            => /\ m2m.junction = m2m.prev_junction
               /\ m2m.collection = m2m.prev_collection

Matches ==
    {i \in 1..Len(ups.prev_table) :
        ups.prev_table[i][ups.target] = ups.x_in[ups.target]}

\* C21: upsert(x, conflict_target = t, do_nothing = True) run twice leaves
\* the table as it was after the first call, and a call that conflicts on t
\* never modifies the existing row.
C21_DoNothingIdempotent ==
    (ups.op = "upsert" /\ ups.do_nothing)
        => /\ ups.again => ups.table = ups.prev_table
           /\ \A i \in Matches : ups.table[i] = ups.prev_table[i]

\* C22: upsert(x, conflict_target = t) without do_nothing updates exactly
\* the row that matches x on t (the update_fields when given, otherwise
\* every inserted field but the primary key), keeps the row count and gives
\* x that row's primary key; if no row matches it inserts exactly one row.
C22_UpsertUpdatesOrInserts ==
    (ups.op = "upsert" /\ ~ups.do_nothing /\ ~ups.raised)
        => LET cols == IF ups.update_fields # {} THEN ups.update_fields
                       ELSE {"email", "name"}
           IN /\ \A i \in 1..Len(ups.prev_table) :
                    \A f \in {"id", "email", "name"} :
                        ups.table[i][f] = IF i \in Matches /\ f \in cols
                                          THEN ups.x_in[f]
                                          ELSE ups.prev_table[i][f]
              /\ Matches # {}
                    => /\ Len(ups.table) = Len(ups.prev_table)
                       /\ ups.x.id \in Matches
              /\ Matches = {} => Len(ups.table) = Len(ups.prev_table) + 1

\* C23 as stated: a migration of reversible operations, upgraded and then
\* downgraded by the reverses of its operations in reverse order, leaves
\* the schema as it was before the upgrade and the version table empty.
C23_UpgradeDowngradeRoundTrip ==
    (fnCall.fn = "upgrade_downgrade" /\ fnCall.up_ok)
        => /\ fnCall.down_ok
           /\ fnCall.after = fnCall.before
           /\ fnCall.versions = <<>>

\* C23 amended: the same for a migration none of whose operations carries
\* if_not_exists.
C23_RoundTripWithoutIfNotExists ==
    (/\ fnCall.fn = "upgrade_downgrade"
     /\ fnCall.up_ok
     /\ \A k \in 1..Len(fnCall.ops) : ~fnCall.ops[k].if_not_exists)
        => /\ fnCall.down_ok
           /\ fnCall.after = fnCall.before
           /\ fnCall.versions = <<>>

\* create table, add column and create index, upgraded and downgraded
C23_Witness ==
    /\ fnCall.fn = "upgrade_downgrade"
    /\ fnCall.up_ok
    /\ fnCall.down_ok
    /\ Len(fnCall.ops) = 3
    /\ fnCall.ops[1].kind = "create_table"
    /\ fnCall.ops[2].kind = "add_column"
    /\ fnCall.ops[3].kind = "create_index"
    /\ \A k \in 1..3 : ~fnCall.ops[k].if_not_exists

\* what C24 says of the stream() call just made: the instances yielded are
\* the rows of the query, each once and in query order, after
\* floor(n / batch_size) + 1 window queries
StreamYieldsEachRowOnce ==
    LET expected == BuildSelectSql(QueryOf(lastOp), db[lastOp.model])
    IN /\ [i \in 1..Len(lastOp.result) |-> objs[lastOp.result[i]].pk] = expected
       /\ lastOp.sql = Len(expected) \div lastOp.batch_size + 1

\* C24: for any batch_size >= 1 and unchanged table, stream(batch_size)
\* yields every matching row exactly once, in query order, and stops after
\* the first window that is empty or shorter than batch_size, having issued
\* floor(n / batch_size) + 1 window queries.
C24_StreamYieldsEachRowOnce ==
    lastOp.op = "stream" => StreamYieldsEachRowOnce

\* C27: delete, remove and update on an instance whose entity has no primary
\* key fail at the call site before any SQL is issued, leaving the instance's
\* attributes, the pending queues and the database unchanged.
C27_KeylessFailsBeforeSql ==
    fnCall.fn = "keyless" =>
        /\ fnCall.raised
        /\ fnCall.sql = 0
        /\ fnCall.name = fnCall.before.name
        /\ fnCall.pending_new = fnCall.before.pending_new
        /\ fnCall.pending_delete = fnCall.before.pending_delete
        /\ fnCall.rows = fnCall.before.rows

\* the positions of the operations of a kind on a table in the last diff
OperationsOf(kind, table_name) ==
    {k \in 1..Len(fnCall.operations) :
        fnCall.operations[k] = [kind |-> kind, table |-> table_name]}

\* C28: AutogenContext.diff() never emits DropTable (tables only in the
\* database are left alone) and emits one CreateTable per model table
\* missing from the database.
C28_DiffCreatesNeverDrops ==
    fnCall.fn = "diff" =>
        /\ \A k \in 1..Len(fnCall.operations) :
              fnCall.operations[k].kind # "drop_table"
        /\ \A t \in {"users", "posts"} :
              Cardinality(OperationsOf("create_table", t))
                 = IF /\ fnCall.model_schema[t].present
                       /\ ~fnCall.db_schema[t].present
                   THEN 1 ELSE 0
        /\ OperationsOf("create_table", "legacy") = {}

\* a diff of a model table missing from a database that holds a table no
\* model has
C28_Witness ==
    /\ fnCall.fn = "diff"
    /\ fnCall.model_schema["users"].present
    /\ ~fnCall.db_schema["users"].present
    /\ fnCall.db_schema["legacy"].present
    /\ fnCall.db_schema["posts"].present
    /\ fnCall.model_schema["posts"].present
    /\ OperationsOf("create_table", "users") # {}

\* C25: if a relationship's target entity is not in the model registry, the
\* first query or load on the owning entity that uses the relationship
\* fails with an error naming the missing target.
C25_MissingTargetFails ==
    (fnCall.fn = "load_relationship" /\ ~fnCall.registered) => fnCall.raised

\* C26: if several columns could serve as the foreign key of a relationship
\* and no explicit foreign-key list is given, loading the relationship
\* fails.
C26_AmbiguousForeignKeyFails ==
    (/\ fnCall.fn = "load_relationship"
     /\ fnCall.registered
     /\ fnCall.candidates >= 2
     /\ ~fnCall.explicit) => fnCall.raised

\* what get(cls, id, include_deleted = TRUE) returns in the current state:
\* the cached instance, else the row of any soft delete state
GetWithDeleted(cls, id) ==
    IF identity_map[cls][id] # NoObj THEN <<identity_map[cls][id]>>
    ELSE FirstRows(with_deleted(Query(cls, id)), db[cls])

\* C29: after remove(x) or force_delete(x) succeeds, x's row is absent from
\* the table, the identity map has no entry for (entity, x's primary key),
\* and session.get(E, that key, include_deleted=True) returns None.
C29_RemoveLeavesNothing ==
    (/\ lastOp.op \in {"remove", "force_delete"}
     /\ ~lastOp.raised
     /\ objs[lastOp.result[1]].pk # NoPk) =>
        LET x == objs[lastOp.result[1]]
        IN /\ db[x.cls][x.pk] = "absent"
           /\ identity_map[x.cls][x.pk] = NoObj
           /\ GetWithDeleted(x.cls, x.pk) = <<>>

\* a soft-deleted Article has just been force-deleted in a session that
\* holds another stored instance
C29_Witness ==
    /\ lastOp.op = "force_delete"
    /\ ~lastOp.raised
    /\ objs[lastOp.result[1]].pk # NoPk
    /\ objs[lastOp.result[1]].cls = "Article"
    /\ objs[lastOp.result[1]].del
    /\ \E o \in Instances : o # lastOp.result[1] /\ objs[o].pk # NoPk

\* the loaded migrations not recorded in table that are the target or its
\* ancestors; all of them for "head"
PendingUpTo(ss, table, target) ==
    {r \in Revisions(ss) \ Range(table) :
        target = HEAD \/ r = target \/ DependsOn(ss, target, r)}

\* what C30 says of a step in which upgrade(target) completes
UpgradeRunsPendingAncestors ==
    LET ran == lastCall'.ran
    IN /\ Range(ran) = PendingUpTo(scripts, version_table, lastCall'.target)
       /\ \A i, j \in 1..Len(ran) : i # j => ran[i] # ran[j]
       /\ \A i, j \in 1..Len(ran) :
             ByRevision(scripts, ran[i]).down_revision = ran[j] => j < i
       /\ version_table' = version_table \o ran
       /\ \A i \in 1..Len(ran) : schema'[ran[i]] = NStmts

\* C30: upgrade(target) executes, in an order where every migration runs
\* after its down_revision, exactly the loaded migrations not yet applied
\* that are the target or its ancestors (all pending ones for "head"), and
\* writes each revision to the version table after that migration's
\* statements and before the next migration starts.
C30_UpgradeRunsPendingAncestors ==
    [][(/\ lastCall'.op = "upgrade"
        /\ ~lastCall'.raised
        /\ lastCall'.target \in {HEAD} \cup Revisions(scripts))
       => UpgradeRunsPendingAncestors]_vars

\* some row is deleted in this step
DeletesRow == \E cls \in Classes, p \in PKs : db[cls][p] # "absent" /\ db'[cls][p] = "absent"

Compare(v, op, operands) ==
    CASE op = "eq" -> v = operands[1]
      [] op = "gt" -> v > operands[1]
      [] OTHER     -> \E k \in 1..Len(operands) : v = operands[k]

\* the SQL from token j on with every condition replaced by its truth on
\* the row: $n is bound to the n-th parameter of the statement, ? to the
\* next one after the used that came before
RECURSIVE BoundFrom(_, _, _, _, _, _, _)
BoundFrom(sql, j, used, params, param_offset, dia, row) ==
    IF j > Len(sql) THEN <<>>
    ELSE LET tok == sql[j]
             operands == [k \in 1..Len(tok.ph) |->
                            IF dia = "postgresql" THEN params[tok.ph[k] - param_offset]
                            ELSE params[used + k]]
             word == IF tok.t = "cmp"
                     THEN IF Compare(row[tok.col], tok.op, operands) THEN "T" ELSE "F"
                     ELSE IF tok.t = "1 = 0" THEN "F"
                     ELSE tok.t
         IN <<word>> \o BoundFrom(sql, j + 1, used + Len(tok.ph), params,
                                  param_offset, dia, row)

Bound(sql, params, param_offset, dia, row) ==
    BoundFrom(sql, 1, 0, params, param_offset, dia, row)

\* the value of a boolean SQL expression, read with the precedence of the
\* database: parentheses, then NOT, then AND, then OR
RECURSIVE ParseOr(_, _), ParseAnd(_, _), ParseNot(_, _), OrTail(_, _, _), AndTail(_, _, _)
ParseNot(w, i) ==
    IF w[i] = "NOT"
    THEN LET r == ParseNot(w, i + 1) IN [v |-> ~r.v, i |-> r.i]
    ELSE IF w[i] = "("
    THEN LET r == ParseOr(w, i + 1) IN [v |-> r.v, i |-> r.i + 1]
    ELSE [v |-> w[i] = "T", i |-> i + 1]

AndTail(w, v, i) ==
    IF i <= Len(w) /\ w[i] = "AND"
    THEN LET r == ParseNot(w, i + 1) IN AndTail(w, v /\ r.v, r.i)
    ELSE [v |-> v, i |-> i]

ParseAnd(w, i) == LET r == ParseNot(w, i) IN AndTail(w, r.v, r.i)

OrTail(w, v, i) ==
    IF i <= Len(w) /\ w[i] = "OR"
    THEN LET r == ParseAnd(w, i + 1) IN OrTail(w, v \/ r.v, r.i)
    ELSE [v |-> v, i |-> i]

ParseOr(w, i) == LET r == ParseAnd(w, i) IN OrTail(w, r.v, r.i)

\* the emitted WHERE fragment is true on the row
SqlTrue(sql, params, param_offset, dia, row) ==
    ParseOr(Bound(sql, params, param_offset, dia, row), 1).v

\* the Q expression is true on the row
RECURSIVE Means(_, _)
Means(e, row) ==
    CASE e.op = "q"   -> \A k \in 1..Len(e.kwargs) :
                            Compare(row[e.kwargs[k].col], e.kwargs[k].op, e.kwargs[k].value)
      [] e.op = "not" -> ~Means(e.args[1], row)
      [] e.op = "and" -> Means(e.args[1], row) /\ Means(e.args[2], row)
      [] OTHER        -> Means(e.args[1], row) \/ Means(e.args[2], row)

RECURSIVE Placeholders(_)
Placeholders(sql) ==
    IF sql = <<>> THEN <<>> ELSE Head(sql).ph \o Placeholders(Tail(sql))

\* C33: for every combination of SET values, Q trees of any nesting depth,
\* keyword filters and HAVING filters, the SQL emitted for PostgreSQL uses
\* placeholders $1..$n with n equal to the length of the parameter list,
\* each index appearing exactly once in left-to-right order, so $i always
\* denotes the i-th parameter.
C33_PlaceholdersNumberTheParameters ==
    /\ (fnCall.fn = "statement" /\ fnCall.dialect = "postgresql") =>
          Placeholders(fnCall.sql) = [i \in 1..Len(fnCall.params) |-> i]
    /\ (fnCall.fn = "to_sql" /\ fnCall.dialect = "postgresql") =>
          Placeholders(fnCall.sql) =
             [i \in 1..Len(fnCall.params) |-> fnCall.param_offset + i]

\* an UPDATE for PostgreSQL with two SET values, a nested Q tree, a second Q
\* object and keyword filters of no and of two parameters
C33_Witness ==
    /\ fnCall.fn = "statement"
    /\ fnCall.dialect = "postgresql"
    /\ fnCall.kind = "bulk_update"
    /\ Len(fnCall.values) = 2
    /\ Len(fnCall.conditions) = 2
    /\ fnCall.conditions[1].op = "not"
    /\ fnCall.conditions[1].args[1].op = "or"
    /\ fnCall.filters = <<InNone, InA>>
    /\ Len(fnCall.params) >= 7

\* the targets the junction table links to parent p, in junction-row order
LinkedTargets(junction, p) ==
    LET mine == SelectSeq(junction, LAMBDA row : row[1] = p)
    IN [k \in 1..Len(mine) |-> mine[k][2]]

\* C35: after a many-to-many relationship is selectin-loaded, every parent's
\* relationship value is a many-to-many collection bound to the session,
\* also for parents with no associations, holding exactly the targets
\* linked to that parent in the junction table, in junction-row order.
C35_SelectinM2MBoundCollections ==
    fnCall.fn = "load_selectin_m2m" =>
        \A p \in 1..fnCall.n :
            /\ fnCall.values[p].bound
            /\ fnCall.values[p].items = LinkedTargets(fnCall.junction, p)

\* the applied revisions up to and including the first row holding rev
AppliedThrough(applied, rev) ==
    SubSeq(applied, 1, CHOOSE i \in 1..Len(applied) :
                          applied[i] = rev /\ \A j \in 1..(i - 1) : applied[j] # rev)

\* C38: downgrade(rev) with a revision id rolls back exactly the migrations
\* applied after rev and leaves rev itself applied; if rev matches no
\* applied revision, nothing is rolled back.
C38_DowngradeToRevision ==
    [][(lastCall'.op = "downgrade_rev" /\ ~lastCall'.raised)
       => IF lastCall'.target \in Range(version_table)
          THEN version_table' = AppliedThrough(version_table, lastCall'.target)
          ELSE version_table' = version_table]_vars

\* C39: terminal operations do not modify the query they are called on:
\* after q.first(), q.all() or q.stream() on the same query object returns
\* the same rows as on a freshly built query with the same filters,
\* ordering, limit and offset.
C39_TerminalsLeaveQueryAlone ==
    (/\ fnCall.fn = "query"
     /\ Len(fnCall.calls) >= 2
     /\ \E i \in 1..(Len(fnCall.calls) - 1) : fnCall.calls[i] = "first"
     /\ fnCall.calls[Len(fnCall.calls)] \in {"all", "stream"})
    => fnCall.rows = fnCall.fresh

\* this step sends an INSERT for instance o: the key the database returns
\* for the new row is written to the instance
InsertsInstance(o) == objs'[o].pk # objs[o].pk

\* C36: across any sequence of add, commit and failed commit calls on one
\* session, each added object is inserted into the database at most once:
\* a commit does not insert again an object that an earlier flush already
\* wrote (one that holds the key of its row).
C36_InsertedAtMostOnce ==
    [][lastOp'.op = "commit"
       => \A o \in 1..Len(objs) : objs[o].pk # NoPk => ~InsertsInstance(o)]_vars

\* C37: if a task calls add(x) on a session while another task's commit()
\* on the same session is suspended at a database round trip, x is either
\* inserted by that commit or still in pending_new afterwards; it is never
\* removed from the queue without being inserted.
C37_AddDuringCommitKept ==
    [][(fnCall.fn = "flush_inserts" /\ fnCall'.fn = "none")
       => \A i \in 1..Len(pending_new) :
             \/ objs'[pending_new[i]].pk # NoPk
             \/ \E k \in 1..Len(pending_new') : pending_new'[k] = pending_new[i]]_vars

\* the targets the junction table links to the owner
LinkedToOwner == {t \in TargetPks : m2m.junction[t] >= 1}

\* the targets the collection read from the owner holds
MembersOf(collection) == {ItemPk(collection[i]) : i \in 1..Len(collection)}

\* C40: after any sequence of add, remove and clear calls made through the
\* many-to-many collections of a session, the members of a many-to-many
\* collection read from an instance are exactly the targets linked to that
\* instance in the junction table.
C40_CollectionMirrorsJunction ==
    m2m.op # "none" => MembersOf(m2m.collection) = LinkedToOwner

====
